---------------------------- MODULE Spec2Model ----------------------------
(* A model of the world provider (server/world/mcdb/db.go) of dragonfly and *)
(* of the chunk codec and block-state registry it reads chunks through.     *)
(* The store is a map from byte-string keys to values; every handler of the *)
(* provider is one action that performs all of the handler's store          *)
(* operations, any one of which may fail.                                   *)
EXTENDS Integers, Sequences, FiniteSets, TLC

VARIABLES
    ldb,      \* DB.ldb: the key/value store, a function from the keys present to their values
    op,       \* the handler that ran last ("init" before any)
    arg,      \* its arguments
    res,      \* what it returned (and which of its store operations failed)
    pre,      \* the store as it was when the handler started (kept for
              \* SavePlayerSpawnPosition, empty after the other handlers)
    failures, \* how many store operations have failed so far
    written,  \* per chunk prefix: the chunk and dimension of the last SaveChunk whose
              \* writes all reached the store, while nothing else wrote to that prefix
    blockRegistry, \* the block list, the state map and the arrays of package world,
              \* and whether a registration has panicked
    db        \* DB.ldat, the files level.dat and levelname.txt under DB.dir, and
              \* whether DB.ldb has been closed

vars == <<ldb, op, arg, res, pre, failures, written, blockRegistry, db>>

----------------------------------------------------------------------------
(* Bytes and strings. A Go string or []byte is a sequence of 0..255.        *)

Byte == 0..255

\* uint8(x) of an int
uint8(x) == x % 256

\* x >> n on a signed int (arithmetic shift: rounds towards minus infinity)
Shr4(x) == x \div 16

\* binary.LittleEndian.PutUint32(b, uint32(x)) for a 32-bit x
LE32(x) == << x % 256, (x \div 256) % 256, (x \div 65536) % 256, (x \div 16777216) % 256 >>

\* binary.LittleEndian.AppendUint64(nil, uint64(x)) for an int64 x that fits 32 bits
\* (the upper four bytes are the sign extension)
LE64(x) == LE32(x) \o (IF x < 0 THEN <<255, 255, 255, 255>> ELSE <<0, 0, 0, 0>>)

\* int64(binary.LittleEndian.Uint64(b)) for the 8 bytes LE64 produces
Int64OfLE(b) ==
    b[1] + 256 * b[2] + 65536 * b[3]
        + 16777216 * (IF b[4] >= 128 THEN b[4] - 256 ELSE b[4])

Zeros(n) == [i \in 1..n |-> 0]

\* F applied to v: the value v computed once and named in what follows
With(v, F(_)) == F(v)

RECURSIVE Concat(_)
Concat(ss) == IF ss = <<>> THEN <<>> ELSE Head(ss) \o Concat(Tail(ss))

\* The bytes of a sequence of uint32 words, each word its four bytes
WordBytes(words) ==
    [i \in 1..(4 * Len(words)) |-> words[((i - 1) \div 4) + 1][((i - 1) % 4) + 1]]

Drop(s, n) == SubSeq(s, n + 1, Len(s))
Take(s, n) == SubSeq(s, 1, n)

\* "digp", "actorprefix", "player_", "player_server_" as bytes
strDigp == <<100, 105, 103, 112>>
strActorprefix == <<97, 99, 116, 111, 114, 112, 114, 101, 102, 105, 120>>
strPlayer == <<112, 108, 97, 121, 101, 114, 95>>
strPlayerServer == <<112, 108, 97, 121, 101, 114, 95, 115, 101, 114, 118, 101, 114, 95>>

----------------------------------------------------------------------------
(* The store (goleveldb behind DB.ldb). A value is the byte string b        *)
(* followed by the NBT encodings of the compounds n; the empty value has    *)
(* both empty. A store operation may fail (an I/O error, a closed store):   *)
(* a failed Put or Delete leaves the store as it was.                       *)

Raw(bytes) == [b |-> bytes, n |-> <<>>]
NBT(items) == [b |-> <<>>, n |-> items]
NoData == Raw(<<>>)

\* An item of an NBT stream that the NBT decoder rejects.
Malformed == [malformed |-> TRUE]

\* ldb.Get(key): leveldb.ErrNotFound when the key is absent, "io" when the store fails
Get(s, key, fails) ==
    IF fails THEN [data |-> NoData, err |-> "io"]
    ELSE IF key \in DOMAIN s THEN [data |-> s[key], err |-> "nil"]
    ELSE [data |-> NoData, err |-> "ErrNotFound"]

\* ldb.Put(key, value)
Put(s, key, value, fails) ==
    IF fails THEN [s |-> s, err |-> "io"]
    ELSE [s |-> [k \in DOMAIN s \cup {key} |-> IF k = key THEN value ELSE s[k]],
          err |-> "nil"]

\* ldb.Delete(key): deleting an absent key is no error
Delete(s, key, fails) ==
    IF fails THEN [s |-> s, err |-> "io"]
    ELSE [s |-> [k \in DOMAIN s \ {key} |-> s[k]], err |-> "nil"]

\* The empty store
EmptyStore == [k \in {} |-> NoData]

\* data.marshal: the bytes of level.dat for the level data, here the fields
\* the model has
marshal(ldat) == <<"level.dat", ldat.LastPlayed, ldat.LevelName>>

\* A DB as Open leaves it: level data last played at time 0, its files as
\* they were written then, the store open
DBOf(name) ==
    [ldat |-> [LastPlayed |-> 0, LevelName |-> name],
     dir |-> [f \in {"level.dat", "levelname.txt"} |->
                IF f = "level.dat" THEN marshal([LastPlayed |-> 0, LevelName |-> name])
                ELSE name],
     closed |-> FALSE]

OpenedDB == DBOf("World")

\* os.WriteFile of a file of the directory: fault "open" leaves the file as
\* it is, fault "write" leaves it empty
WriteFile(dir, file, bytes, fault) ==
    [dir EXCEPT ![file] = IF fault = "open" THEN @
                          ELSE IF fault = "write" THEN "" ELSE bytes]

\* DB.Close at time now. step names the call that fails ("none" for none) and
\* fault how a WriteFile fails. calls lists what reached the directory and
\* the store, in order.
Close(d, now, step, fault) ==
    With([d EXCEPT !.ldat.LastPlayed = now],
         LAMBDA d1 :
           IF step = "marshal"
           THEN [db |-> d1, err |-> "encode level.dat", calls |-> <<>>]
           ELSE IF step = "level.dat"
           THEN [db |-> [d1 EXCEPT !.dir = WriteFile(@, "level.dat", marshal(d1.ldat), fault)],
                 err |-> "error writing levelname.txt", calls |-> <<>>]
           ELSE With([d1 EXCEPT !.dir = WriteFile(@, "level.dat", marshal(d1.ldat), "none")],
                     LAMBDA d2 :
                       IF step = "levelname.txt"
                       THEN [db |-> [d2 EXCEPT !.dir = WriteFile(@, "levelname.txt",
                                                                 d2.ldat.LevelName, fault)],
                             err |-> "error writing levelname.txt",
                             calls |-> <<"level.dat">>]
                       ELSE [db |-> [d2 EXCEPT
                                       !.dir = WriteFile(@, "levelname.txt",
                                                         d2.ldat.LevelName, "none"),
                                       !.closed = TRUE],
                             err |-> IF d.closed THEN "leveldb: closed"
                                     ELSE IF step = "ldb.Close" THEN "close" ELSE "nil",
                             calls |-> <<"level.dat", "levelname.txt", "ldb.Close">>]))

----------------------------------------------------------------------------
(* Dimensions (world.Dimension) and chunk keys.                             *)

Dimensions == {"Overworld", "Nether", "End", "Overworld_legacy"}

\* Dimension.Range(): the lowest and highest block Y
Range(d) ==
    CASE d = "Overworld" -> <<-64, 319>>
      [] d = "Overworld_legacy" -> <<0, 255>>
      [] d = "Nether" -> <<0, 127>>
      [] d = "End" -> <<0, 255>>

\* The table handed to newDimensionRegistry: registration ID -> dimension
dimensionReg == [i \in {0, 1, 2, 10} |->
    CASE i = 0 -> "Overworld" [] i = 1 -> "Nether" [] i = 2 -> "End"
      [] i = 10 -> "Overworld_legacy"]

\* A registry that gives each dimension the ID it is listed under
newDimensionRegistryAsListed(dim) ==
    [d \in {dim[k] : k \in DOMAIN dim} |-> CHOOSE k \in DOMAIN dim : dim[k] = d]

\* newDimensionRegistry: the ID of each dimension; the legacy overworld's is lowered by 10
newDimensionRegistry(dim) ==
    [d \in {dim[k] : k \in DOMAIN dim} |->
        LET k == CHOOSE k \in DOMAIN dim : dim[k] = d
        IN  IF d = "Overworld_legacy" THEN k - 10 ELSE k]

\* The package's registry of dimensions
dimensions == newDimensionRegistry(dimensionReg)

\* world.DimensionID(d): (id, ok); an unregistered dimension gives (0, false)
DimensionID(d) ==
    IF d \in DOMAIN dimensions THEN <<dimensions[d], TRUE>> ELSE <<0, FALSE>>

\* cube.Range.Height()
Height(r) == r[2] - r[1]

\* The number of sub-chunks of a chunk of range r (chunk.New)
SubChunkCount(r) == Shr4(Height(r)) + 1

\* The key suffixes of the Bedrock schema
keyVersion == 47
keyVersionOld == 118
key3DData == 43
keySubChunkData == 44
keyFinalisation == 54
keyBlockEntities == 49
keyEntities == 50
chunkVersion == 40

\* An index without the dimension: 8 bytes always
indexEightBytes(position, d) == LE32(position[1]) \o LE32(position[2])

\* DB.index: 8 bytes for dimension ID 0, else 12
index(position, d) ==
    LET dim == DimensionID(d)[1]
        b == LE32(position[1]) \o LE32(position[2])
    IN  IF dim = 0 THEN b ELSE b \o LE32(dim)

\* DB.actorIndex
actorIndex(uniqueID) == strActorprefix \o LE64(uniqueID)

\* append(key, keySubChunkData, uint8(i + (r[0] >> 4))) for the 0-based slot i
subChunkKey(key, i, r) == key \o <<keySubChunkData, uint8(i + Shr4(r[1]))>>

----------------------------------------------------------------------------
(* The block-state registry as the chunk codec uses it. A property value is *)
(* its type and the bytes hashProperties appends for it.                    *)

PBool(v) == [t |-> "bool", v |-> <<IF v THEN 1 ELSE 0>>]
PUint8(v) == [t |-> "uint8", v |-> <<v>>]
PInt32(v) == [t |-> "int32", v |-> LE32(v)]
PString(bytes) == [t |-> "string", v |-> bytes]

PropertyTypes == {"bool", "uint8", "int32", "string"}

\* The property keys of the model, in lexicographic order
PropertyKeys ==
    <<"age", "color", "liquid_depth", "minecraft:facing_direction", "stone_type">>

NoProperties == [k \in {} |-> PBool(FALSE)]

\* keys[i] < keys[j] of two keys
keyLess(a, b) ==
    \E i, j \in 1..Len(PropertyKeys) :
        PropertyKeys[i] = a /\ PropertyKeys[j] = b /\ i < j

RECURSIVE insertKey(_, _)
insertKey(sorted, k) ==
    IF sorted = <<>> THEN <<k>>
    ELSE IF keyLess(k, Head(sorted)) THEN <<k>> \o sorted
    ELSE <<Head(sorted)>> \o insertKey(Tail(sorted), k)

\* Keys left in the order they came in
keepKeys(keys) == keys

\* sort.Slice(keys, func(i, j int) bool { return keys[i] < keys[j] })
RECURSIVE sortKeys(_)
sortKeys(keys) ==
    IF keys = <<>> THEN <<>> ELSE insertKey(sortKeys(Tail(keys)), Head(keys))

\* hashProperties when the range over the map yields its keys in the order
\* ranged: the values' bytes in the order of the sorted keys; a value of
\* another type panics (<<-1>>)
hashPropertiesRange(properties, ranged) ==
    With(sortKeys(ranged),
         LAMBDA keys :
           IF \E k \in DOMAIN properties : properties[k].t \notin PropertyTypes
           THEN <<-1>>
           ELSE Concat([i \in 1..Len(keys) |-> properties[keys[i]].v]))

\* An order the range over a map may take: the reverse of the sorted one
RECURSIVE rangeKeys(_, _)
rangeKeys(properties, i) ==
    IF i = 0 THEN <<>>
    ELSE (IF PropertyKeys[i] \in DOMAIN properties THEN <<PropertyKeys[i]>> ELSE <<>>)
            \o rangeKeys(properties, i - 1)

\* hashProperties; its result is the same for every order of the range
hashProperties(properties) ==
    hashPropertiesRange(properties, rangeKeys(properties, Len(PropertyKeys)))

stateHash(name, properties) == <<name, hashProperties(properties)>>

BlockState(name, properties) == [name |-> name, properties |-> properties]

\* The embedded catalogue block_states.nbt of the model, in file order
blockStateData == <<
    BlockState("minecraft:air", NoProperties),
    BlockState("minecraft:stone", [stone_type |-> PString(<<115>>)]),
    BlockState("minecraft:water", [liquid_depth |-> PInt32(0)]),
    BlockState("minecraft:water", [liquid_depth |-> PInt32(1)]) >>

\* ClearStates: the empty registry. The runtime-ID-indexed arrays hold, next to
\* each value, the state hash the entry was inserted for. build names the
\* source file whose registry functions the program was built with.
ClearStates ==
    [blocks |-> <<>>,
     stateRuntimeIDs |-> [h \in {} |-> 0],
     blockProperties |-> [nm \in {} |-> NoProperties],
     nbtBlocks |-> <<>>,
     randomTickBlocks |-> <<>>,
     liquidBlocks |-> <<>>,
     liquidDisplacingBlocks |-> <<>>,
     FilteringBlocks |-> <<>>,
     LightBlocks |-> <<>>,
     WaterBlocks |-> <<>>,
     airRID |-> 0,
     build |-> "block_state.go",
     panicked |-> FALSE]

\* The package variables of part_003 before init
NoStates == [ClearStates EXCEPT !.build = "part_003"]

\* A registerBlockState that registers a state again under a new runtime ID
registerBlockStateAgain(reg, st) ==
    LET h == stateHash(st.name, st.properties)
        rid == Len(reg.blocks)
    IN  IF reg.panicked \/ h[2] = <<-1>>
        THEN [reg EXCEPT !.panicked = TRUE]
        ELSE [reg EXCEPT
                !.blocks = Append(reg.blocks, st),
                !.stateRuntimeIDs =
                    [k \in DOMAIN reg.stateRuntimeIDs \cup {h} |->
                        IF k = h THEN rid ELSE reg.stateRuntimeIDs[k]],
                !.blockProperties =
                    [nm \in DOMAIN reg.blockProperties \cup {st.name} |->
                        IF nm \in DOMAIN reg.blockProperties
                        THEN reg.blockProperties[nm] ELSE st.properties]]

\* A registerBlockState that counts runtime IDs from 1
registerBlockStateFromOne(reg, st) ==
    LET h == stateHash(st.name, st.properties)
        rid == Len(reg.blocks) + 1
    IN  IF reg.panicked \/ h[2] = <<-1>> \/ h \in DOMAIN reg.stateRuntimeIDs
        THEN [reg EXCEPT !.panicked = TRUE]
        ELSE [reg EXCEPT
                !.blocks = Append(reg.blocks, st),
                !.stateRuntimeIDs =
                    [k \in DOMAIN reg.stateRuntimeIDs \cup {h} |->
                        IF k = h THEN rid ELSE reg.stateRuntimeIDs[k]],
                !.blockProperties =
                    [nm \in DOMAIN reg.blockProperties \cup {st.name} |->
                        IF nm \in DOMAIN reg.blockProperties
                        THEN reg.blockProperties[nm] ELSE st.properties]]

\* registerBlockState: panics on properties that do not hash and on a state
\* hash already registered; the first state of a name gives the name's default
\* properties
registerBlockState(reg, st) ==
    LET h == stateHash(st.name, st.properties)
        rid == Len(reg.blocks)
    IN  IF reg.panicked \/ h[2] = <<-1>> \/ h \in DOMAIN reg.stateRuntimeIDs
        THEN [reg EXCEPT !.panicked = TRUE]
        ELSE [reg EXCEPT
                !.blocks = Append(reg.blocks, st),
                !.stateRuntimeIDs =
                    [k \in DOMAIN reg.stateRuntimeIDs \cup {h} |->
                        IF k = h THEN rid ELSE reg.stateRuntimeIDs[k]],
                !.blockProperties =
                    [nm \in DOMAIN reg.blockProperties \cup {st.name} |->
                        IF nm \in DOMAIN reg.blockProperties
                        THEN reg.blockProperties[nm] ELSE st.properties]]

\* LoadBlockStates: every record of the catalogue, in order
RECURSIVE registerAll(_, _)
registerAll(reg, states) ==
    IF states = <<>> THEN reg
    ELSE registerAll(registerBlockState(reg, Head(states)), Tail(states))

LoadBlockStates == registerAll(ClearStates, blockStateData)

\* h1.Sum64() of a block name: a number of its own for every name. The names
\* are listed in the order of Go's string comparison.
BlockNames ==
    <<"custom:block", "minecraft:air", "minecraft:stone", "minecraft:water", "ns:block">>

Sum64(name) == CHOOSE i \in 1..Len(BlockNames) : BlockNames[i] = name

\* sort_blocks of two blocks
sort_blocks(one, two) == one.name = two.name /\ Sum64(one.name) < Sum64(two.name)

RECURSIVE insertBlock(_, _)
insertBlock(sorted, b) ==
    IF sorted = <<>> THEN <<b>>
    ELSE IF sort_blocks(b, Head(sorted)) THEN <<b>> \o sorted
    ELSE <<Head(sorted)>> \o insertBlock(Tail(sorted), b)

\* sort.SliceStable(blocks, sort_blocks)
RECURSIVE SliceStable(_)
SliceStable(bs) ==
    IF bs = <<>> THEN <<>>
    ELSE insertBlock(SliceStable(SubSeq(bs, 1, Len(bs) - 1)), bs[Len(bs)])

\* slices.Insert of one value at index i; the index is within the slice or at
\* its end wherever the registry calls it
slicesInsert(sl, i, v) == SubSeq(sl, 1, i) \o <<v>> \o SubSeq(sl, i + 1, Len(sl))

\* Entries put in front of the arrays whatever the runtime ID
insertInFront(reg, rid, h) ==
    [reg EXCEPT
        !.nbtBlocks = slicesInsert(@, 0, [of |-> h, v |-> FALSE]),
        !.randomTickBlocks = slicesInsert(@, 0, [of |-> h, v |-> FALSE]),
        !.liquidBlocks = slicesInsert(@, 0, [of |-> h, v |-> FALSE]),
        !.liquidDisplacingBlocks = slicesInsert(@, 0, [of |-> h, v |-> FALSE]),
        !.FilteringBlocks = slicesInsert(@, 0, [of |-> h, v |-> 15]),
        !.LightBlocks = slicesInsert(@, 0, [of |-> h, v |-> 0])]

\* The six slices.Insert calls at a runtime ID, for the state of hash h; an
\* index beyond the end of a slice panics
insertAtRuntimeID(reg, rid, h) ==
    IF \/ rid > Len(reg.nbtBlocks) \/ rid > Len(reg.randomTickBlocks)
       \/ rid > Len(reg.liquidBlocks) \/ rid > Len(reg.liquidDisplacingBlocks)
       \/ rid > Len(reg.FilteringBlocks) \/ rid > Len(reg.LightBlocks)
    THEN [reg EXCEPT !.panicked = TRUE]
    ELSE [reg EXCEPT
            !.nbtBlocks = slicesInsert(@, rid, [of |-> h, v |-> FALSE]),
            !.randomTickBlocks = slicesInsert(@, rid, [of |-> h, v |-> FALSE]),
            !.liquidBlocks = slicesInsert(@, rid, [of |-> h, v |-> FALSE]),
            !.liquidDisplacingBlocks = slicesInsert(@, rid, [of |-> h, v |-> FALSE]),
            !.FilteringBlocks = slicesInsert(@, rid, [of |-> h, v |-> 15]),
            !.LightBlocks = slicesInsert(@, rid, [of |-> h, v |-> 0])]

\* The loop of registerBlockStates over the blocks from runtime ID id on: air
\* is noted, a block that was added and is in the state map already panics,
\* an added block gets its entries in the arrays, and every block is put in
\* the map under its place in the list
RECURSIVE assignRuntimeIDs(_, _, _)
assignRuntimeIDs(reg, map_rids, id) ==
    IF id >= Len(reg.blocks) THEN reg
    ELSE LET b == reg.blocks[id + 1]
             i == stateHash(b.name, b.properties)
             air == IF b.name = "minecraft:air" THEN id ELSE reg.airRID
         IN  IF i \in map_rids /\ i \in DOMAIN reg.stateRuntimeIDs
             THEN [reg EXCEPT !.airRID = air, !.panicked = TRUE]
             ELSE With(IF i \in map_rids THEN insertAtRuntimeID(reg, id, i) ELSE reg,
                       LAMBDA a :
                         IF a.panicked THEN a
                         ELSE assignRuntimeIDs(
                                  [a EXCEPT !.airRID = air,
                                            !.stateRuntimeIDs =
                                      [k \in DOMAIN reg.stateRuntimeIDs \cup {i} |->
                                          IF k = i THEN id ELSE reg.stateRuntimeIDs[k]]],
                                  map_rids, id + 1))

\* The first loop of registerBlockStates: the states appended to the blocks up
\* to the first whose properties do not hash
RECURSIVE appendStates(_, _)
appendStates(reg, ss) ==
    IF ss = <<>> THEN reg
    ELSE IF hashProperties(Head(ss).properties) = <<-1>>
    THEN [reg EXCEPT !.blocks = Append(reg.blocks, Head(ss)), !.panicked = TRUE]
    ELSE appendStates([reg EXCEPT !.blocks = Append(reg.blocks, Head(ss))], Tail(ss))

\* A registerBlockStates that appends the batch and leaves the state map
registerBlockStatesAppended(reg, ss) == appendStates(reg, ss)

\* registerBlockStates: a batch of states
registerBlockStates(reg, ss) ==
    With(appendStates(reg, ss),
         LAMBDA a :
           IF a.panicked THEN a
           ELSE assignRuntimeIDs(
                    [a EXCEPT !.blocks = SliceStable(a.blocks)],
                    {stateHash(ss[k].name, ss[k].properties) : k \in DOMAIN ss}, 0))

\* The loop of registerBlockState(s, true) over the blocks from runtime ID id
\* on: the registry and the runtime ID of the state of hash h
RECURSIVE orderRuntimeIDs(_, _, _, _)
orderRuntimeIDs(reg, h, rid, id) ==
    IF id >= Len(reg.blocks) THEN <<reg, rid>>
    ELSE LET b == reg.blocks[id + 1]
             i == stateHash(b.name, b.properties)
         IN  orderRuntimeIDs(
                 [reg EXCEPT !.airRID = IF b.name = "minecraft:air" THEN id ELSE @,
                             !.stateRuntimeIDs =
                                 [k \in DOMAIN reg.stateRuntimeIDs \cup {i} |->
                                     IF k = i THEN id ELSE reg.stateRuntimeIDs[k]]],
                 h, IF i = h THEN id ELSE rid, id + 1)

\* registerBlockState(s, order) of part_003
registerBlockStateOrder(reg, s, order) ==
    LET h == stateHash(s.name, s.properties)
        n == Len(reg.blocks)
    IN  IF reg.panicked \/ h[2] = <<-1>> \/ h \in DOMAIN reg.stateRuntimeIDs
        THEN [reg EXCEPT !.panicked = TRUE]
        ELSE With([reg EXCEPT
                      !.airRID = IF s.name = "minecraft:air" THEN n ELSE @,
                      !.WaterBlocks = IF s.name = "minecraft:water" THEN Append(@, n) ELSE @,
                      !.blocks = Append(@, s)],
                  LAMBDA a :
                    With(IF order
                         THEN orderRuntimeIDs([a EXCEPT !.blocks = SliceStable(@)], h, n, 0)
                         ELSE <<a, n>>,
                         LAMBDA o :
                           insertAtRuntimeID(
                               [o[1] EXCEPT !.stateRuntimeIDs =
                                   [k \in DOMAIN o[1].stateRuntimeIDs \cup {h} |->
                                       IF k = h THEN o[2] ELSE o[1].stateRuntimeIDs[k]]],
                               o[2], h)))

\* chunk.RuntimeIDToState
RuntimeIDToState(reg, runtimeID) ==
    IF runtimeID >= Len(reg.blocks)
    THEN [name |-> "", properties |-> NoProperties, found |-> FALSE]
    ELSE [name |-> reg.blocks[runtimeID + 1].name,
          properties |-> reg.blocks[runtimeID + 1].properties,
          found |-> TRUE]

\* chunk.StateToRuntimeID: the state itself, else the name's default properties
StateToRuntimeID(reg, name, properties) ==
    LET h == stateHash(name, properties)
        dflt == IF name \in DOMAIN reg.blockProperties
                THEN reg.blockProperties[name] ELSE NoProperties
        hd == stateHash(name, dflt)
    IN  IF h \in DOMAIN reg.stateRuntimeIDs
        THEN [rid |-> reg.stateRuntimeIDs[h], found |-> TRUE]
        ELSE IF hd \in DOMAIN reg.stateRuntimeIDs
        THEN [rid |-> reg.stateRuntimeIDs[hd], found |-> TRUE]
        ELSE [rid |-> 0, found |-> FALSE]

\* chunk.StateToRuntimeID of part_003: the state itself
StateToRuntimeIDNoDefault(reg, name, properties) ==
    LET h == stateHash(name, properties)
    IN  IF h \in DOMAIN reg.stateRuntimeIDs
        THEN [rid |-> reg.stateRuntimeIDs[h], found |-> TRUE]
        ELSE [rid |-> 0, found |-> FALSE]

\* FinaliseBlockRegistry: the block list in a stable order by name, the state
\* map rebuilt from the places in the list, the air runtime ID captured
nameLess(one, two) ==
    \E i, j \in DOMAIN BlockNames :
        BlockNames[i] = one.name /\ BlockNames[j] = two.name /\ i < j

RECURSIVE insertByName(_, _)
insertByName(sorted, b) ==
    IF sorted = <<>> THEN <<b>>
    ELSE IF nameLess(b, sorted[Len(sorted)])
    THEN insertByName(SubSeq(sorted, 1, Len(sorted) - 1), b) \o <<sorted[Len(sorted)]>>
    ELSE sorted \o <<b>>

RECURSIVE sortByName(_)
sortByName(bs) ==
    IF bs = <<>> THEN <<>>
    ELSE insertByName(sortByName(SubSeq(bs, 1, Len(bs) - 1)), bs[Len(bs)])

FinaliseBlockRegistry(reg) ==
    With(sortByName(reg.blocks),
         LAMBDA bs :
           [reg EXCEPT
              !.blocks = bs,
              !.stateRuntimeIDs =
                  [h \in {stateHash(bs[i].name, bs[i].properties) : i \in DOMAIN bs} |->
                      (CHOOSE i \in DOMAIN bs :
                          stateHash(bs[i].name, bs[i].properties) = h) - 1],
              !.airRID =
                  IF \E i \in DOMAIN bs : bs[i].name = "minecraft:air"
                  THEN (CHOOSE i \in DOMAIN bs : bs[i].name = "minecraft:air") - 1
                  ELSE @])

\* splitNamespace: what an identifier has before its first colon
RECURSIVE colonAt(_, _)
colonAt(identifier, i) ==
    IF i > Len(identifier) THEN 0
    ELSE IF SubSeq(identifier, i, i) = ":" THEN i
    ELSE colonAt(identifier, i + 1)

splitNamespace(identifier) ==
    With(colonAt(identifier, 1),
         LAMBDA c : IF c = 0 THEN identifier ELSE SubSeq(identifier, 1, c - 1))

\* traitLookup
traitLookup ==
    [k \in {"facing_direction"} |->
        <<PString(<<110, 111, 114, 116, 104>>), PString(<<101, 97, 115, 116>>),
          PString(<<115, 111, 117, 116, 104>>), PString(<<119, 101, 115, 116>>),
          PString(<<100, 111, 119, 110>>), PString(<<117, 112>>)>>]

\* The declared properties of an entry: propertyNames and propertyValues
declaredProperties(entry) ==
    [names |-> [i \in DOMAIN entry.properties |-> entry.properties[i].name],
     values |-> [i \in DOMAIN entry.properties |-> entry.properties[i].enum],
     panicked |-> FALSE]

\* The loop over the enabled states of the traits, each a sequence of pairs
\* <<k, enabled>> in the order the range over the map yields them: a state
\* with enabled 0 is passed over, an enabled one not in traitLookup panics
RECURSIVE enabledStates(_, _)
enabledStates(lists, states) ==
    IF states = <<>> \/ lists.panicked THEN lists
    ELSE LET k == Head(states)[1]
             enabled == Head(states)[2]
         IN  IF enabled = 0 THEN enabledStates(lists, Tail(states))
             ELSE IF k \notin DOMAIN traitLookup
             THEN [lists EXCEPT !.panicked = TRUE]
             ELSE enabledStates(
                      [lists EXCEPT !.names = Append(@, "minecraft:" \o k),
                                    !.values = Append(@, traitLookup[k])],
                      Tail(states))

RECURSIVE traitProperties(_, _)
traitProperties(lists, traits) ==
    IF traits = <<>> THEN lists
    ELSE traitProperties(enabledStates(lists, Head(traits)), Tail(traits))

\* cartesian.NewCartesianProduct(propertyValues).Values(): one sequence of
\* values for every choice of a value from each list, the last list varying
\* fastest; every entry the model inserts has a list
RECURSIVE CartesianProduct(_)
CartesianProduct(propertyValues) ==
    IF propertyValues = <<>> THEN << <<>> >>
    ELSE With(CartesianProduct(Tail(propertyValues)),
              LAMBDA rest :
                Concat([i \in DOMAIN Head(propertyValues) |->
                          [j \in DOMAIN rest |-> <<Head(propertyValues)[i]>> \o rest[j]]]))

\* The map m built from one permutation: a later value of a name replaces an
\* earlier one
permutationProperties(propertyNames, values) ==
    [nm \in {propertyNames[i] : i \in DOMAIN propertyNames} |->
        values[CHOOSE i \in DOMAIN propertyNames :
                  /\ propertyNames[i] = nm
                  /\ \A j \in DOMAIN propertyNames : propertyNames[j] = nm => j <= i]]

RECURSIVE registerPermutations(_, _, _, _)
registerPermutations(reg, name, propertyNames, permutations) ==
    IF permutations = <<>> \/ reg.panicked THEN reg
    ELSE registerPermutations(
             registerBlockState(reg,
                 BlockState(name, permutationProperties(propertyNames, Head(permutations)))),
             name, propertyNames, Tail(permutations))

\* The loop of InsertCustomBlocks over the entries
RECURSIVE insertEntries(_, _)
insertEntries(reg, entries) ==
    IF entries = <<>> \/ reg.panicked THEN reg
    ELSE IF splitNamespace(Head(entries).name) = "minecraft"
    THEN insertEntries(reg, Tail(entries))
    ELSE With(traitProperties(declaredProperties(Head(entries)), Head(entries).traits),
              LAMBDA lists :
                IF lists.panicked THEN [reg EXCEPT !.panicked = TRUE]
                ELSE insertEntries(
                         registerPermutations(reg, Head(entries).name, lists.names,
                                              CartesianProduct(lists.values)),
                         Tail(entries)))

\* InsertCustomBlocks of block_state.go
InsertCustomBlocks(reg, entries) ==
    With(insertEntries(reg, entries),
         LAMBDA r : IF r.panicked THEN r ELSE FinaliseBlockRegistry(r))

\* chunk.StateToRuntimeID as init of the build's file sets it
chunkStateToRuntimeID(reg, name, properties) ==
    IF reg.build = "part_003"
    THEN StateToRuntimeIDNoDefault(reg, name, properties)
    ELSE StateToRuntimeID(reg, name, properties)

----------------------------------------------------------------------------
(* Chunks. A paletted storage is its bits per index, its packed words (each *)
(* the four bytes of a uint32, lowest first) and its palette; a sub-chunk   *)
(* is its layers; a chunk is its range, air runtime ID, sub-chunks and      *)
(* biome storages.                                                          *)

PalettedStorage(bits, indices, palette) ==
    [bitsPerIndex |-> bits, indices |-> indices, palette |-> palette]

\* A nil *PalettedStorage
NilStorage == PalettedStorage(-1, <<>>, <<>>)

\* emptyStorage(v): one palette entry, no words
emptyStorage(v) == PalettedStorage(0, <<>>, <<v>>)

\* NewSubChunk(air)
NewSubChunk == [storages |-> <<>>]

\* chunk.New(air, r)
New(air, r) ==
    [r |-> r, air |-> air,
     sub |-> [i \in 1..SubChunkCount(r) |-> NewSubChunk],
     biomes |-> [i \in 1..SubChunkCount(r) |-> emptyStorage(0)]]

\* paletteSize.uint32s(): the words that hold 4096 indices; -1 when the size
\* divides by zero
uint32s(size) ==
    IF size = 0 THEN 0
    ELSE IF 32 \div size = 0 THEN -1
    ELSE LET perWord == 32 \div size
         IN  (4096 + perWord - 1) \div perWord

\* The block states an NBT palette entry of the model can name: the registered
\* ones, an unregistered state of a registered name, and an unknown name
KnownStates == blockStateData \o <<
    BlockState("minecraft:water", [liquid_depth |-> PInt32(7)]),
    BlockState("example:unknown", NoProperties),
    BlockState("", NoProperties) >>

tagCompound == 10

\* The NBT record {name, states, version} of a block state, as bytes
blockNBT(name, properties) ==
    LET st == BlockState(name, properties)
        i == CHOOSE i \in 1..Len(KnownStates) : KnownStates[i] = st
    IN  <<tagCompound, i>>

\* Encoding.encodePalette for the disk encoding: the entry count when the size
\* is not 0, then a block-state record per block entry, four bytes per biome
encodePalette(reg, storage, pe) ==
    LET n == Len(storage.palette)
        entry(v) ==
            IF pe = "BiomePaletteEncoding" THEN LE32(v)
            ELSE LET st == RuntimeIDToState(reg, v)
                 IN  blockNBT(st.name, st.properties)
    IN  (IF storage.bitsPerIndex # 0 THEN LE32(n) ELSE <<>>)
            \o Concat([i \in 1..n |-> entry(storage.palette[i])])

\* encodePalettedStorage for the disk encoding: the inherit header when the
\* storage equals the previous one, else header, words and palette
encodePalettedStorage(reg, storage, previous, pe) ==
    IF storage = previous THEN <<254>>
    ELSE <<(storage.bitsPerIndex * 2) % 256>>
            \o WordBytes(storage.indices)
            \o encodePalette(reg, storage, pe)

\* EncodeSubChunk: version 9, layer count, Y, then the layers
SubChunkVersion == 9

EncodeSubChunk(reg, c, ind) ==
    LET st == c.sub[ind + 1].storages
    IN  <<SubChunkVersion, uint8(Len(st)), uint8(ind + Shr4(c.r[1]))>>
            \o Concat([i \in 1..Len(st) |->
                   encodePalettedStorage(reg, st[i], NilStorage, "BlockPaletteEncoding")])

\* EncodeBiomes
EncodeBiomes(reg, c) ==
    Concat([i \in 1..Len(c.biomes) |->
        encodePalettedStorage(reg, c.biomes[i],
            IF i = 1 THEN NilStorage ELSE c.biomes[i - 1], "BiomePaletteEncoding")])

\* chunk.Encode(c, chunk.DiskEncoding): SerialisedData
Encode(reg, c) ==
    [SubChunks |-> [i \in 1..Len(c.sub) |-> EncodeSubChunk(reg, c, i - 1)],
     Biomes |-> EncodeBiomes(reg, c)]

----------------------------------------------------------------------------
(* Decoding. A decoder takes the unread bytes buf and returns what it read, *)
(* its error ("nil" for none) and the bytes left.                           *)

\* Encoding.decodePalette for the disk encoding
RECURSIVE decodePaletteEntries(_, _, _, _, _)
decodePaletteEntries(reg, buf, count, pe, acc) ==
    IF count = 0 THEN [values |-> acc, err |-> "nil", buf |-> buf]
    ELSE IF pe = "BiomePaletteEncoding"
    THEN IF Len(buf) < 4
         THEN [values |-> acc, err |-> "error reading biome", buf |-> <<>>]
         ELSE decodePaletteEntries(reg, Drop(buf, 4), count - 1, pe,
                  Append(acc, Int64OfLE(Take(buf, 4))))
    ELSE IF Len(buf) < 2 \/ buf[1] # tagCompound \/ buf[2] \notin 1..Len(KnownStates)
    THEN [values |-> acc, err |-> "error decoding block palette entry", buf |-> <<>>]
    ELSE With(StateToRuntimeID(reg, KnownStates[buf[2]].name,
                                    KnownStates[buf[2]].properties),
              LAMBDA r :
                IF ~r.found
                THEN [values |-> acc, err |-> "cannot get runtime ID of block state",
                      buf |-> Drop(buf, 2)]
                ELSE decodePaletteEntries(reg, Drop(buf, 2), count - 1, pe,
                         Append(acc, r.rid)))

decodePalette(reg, buf, blockSize, pe) ==
    IF blockSize # 0 /\ Len(buf) < 4
    THEN [values |-> <<>>, err |-> "error reading palette entry count", buf |-> <<>>]
    ELSE LET paletteCount == IF blockSize = 0 THEN 1 ELSE Int64OfLE(Take(buf, 4))
             rest == IF blockSize = 0 THEN buf ELSE Drop(buf, 4)
         IN  IF paletteCount < 0 \/ paletteCount > Len(rest)
             THEN [values |-> <<>>, err |-> "error decoding palette", buf |-> <<>>]
             ELSE IF paletteCount = 0
             THEN [values |-> <<>>, err |-> "invalid palette entry count", buf |-> rest]
             ELSE decodePaletteEntries(reg, rest, paletteCount, pe, <<>>)

\* A varint: seven bits a byte, lowest first, the high bit set on all but the
\* last byte, at most five bytes
RECURSIVE decodeVarint(_, _, _, _)
decodeVarint(buf, n, scale, acc) ==
    IF buf = <<>> THEN [value |-> 0, err |-> "error reading varint", buf |-> <<>>]
    ELSE IF Head(buf) < 128
    THEN [value |-> acc + scale * Head(buf), err |-> "nil", buf |-> Tail(buf)]
    ELSE IF n = 5 THEN [value |-> 0, err |-> "varint overflows", buf |-> Tail(buf)]
    ELSE decodeVarint(Tail(buf), n + 1, scale * 128, acc + scale * (Head(buf) - 128))

\* The entries of a network palette: a varint each
RECURSIVE networkPaletteEntries(_, _, _)
networkPaletteEntries(buf, count, acc) ==
    IF count = 0 THEN [values |-> acc, err |-> "nil", buf |-> buf]
    ELSE With(decodeVarint(buf, 1, 1, 0),
              LAMBDA v :
                IF v.err # "nil"
                THEN [values |-> acc, err |-> "error decoding palette entry", buf |-> v.buf]
                ELSE networkPaletteEntries(v.buf, count - 1, Append(acc, v.value)))

\* Encoding.decodePalette for the network encoding: the entry count as a
\* varint when the size is not 0, then a varint per entry
networkDecodePalette(buf, blockSize) ==
    IF blockSize = 0 THEN networkPaletteEntries(buf, 1, <<>>)
    ELSE With(decodeVarint(buf, 1, 1, 0),
              LAMBDA n :
                IF n.err # "nil"
                THEN [values |-> <<>>, err |-> "error reading palette entry count",
                      buf |-> n.buf]
                ELSE IF n.value <= 0 \/ n.value > Len(n.buf)
                THEN [values |-> <<>>, err |-> "invalid palette entry count", buf |-> n.buf]
                ELSE networkPaletteEntries(n.buf, n.value, <<>>))

\* e.decodePalette: the network encoding applies to a network stream whose
\* header has the low bit set; a network-persistent palette reads as a disk one
decodePaletteOf(reg, buf, e, header, blockSize, pe) ==
    IF e = "NetworkEncoding" /\ header % 2 = 1
    THEN networkDecodePalette(buf, blockSize)
    ELSE decodePalette(reg, buf, blockSize, pe)

\* decodePalettedStorage: storage is NilStorage with a "nil" error for the
\* inherit header
decodePalettedStorage(reg, buf, e, pe) ==
    IF buf = <<>>
    THEN [storage |-> NilStorage, err |-> "error reading block size", buf |-> buf]
    ELSE
    LET blockSize == Head(buf) \div 2
        b1 == Tail(buf)
        uint32Count == uint32s(blockSize)
        byteCount == uint32Count * 4
    IN  IF blockSize = 127
        THEN [storage |-> NilStorage, err |-> "nil", buf |-> b1]
        ELSE IF uint32Count < 0
        THEN [storage |-> NilStorage, err |-> "panic: integer divide by zero", buf |-> b1]
        ELSE IF Len(b1) < byteCount
        THEN [storage |-> NilStorage, err |-> "not enough block data present",
              buf |-> <<>>]
        ELSE
        With(decodePaletteOf(reg, Drop(b1, byteCount), e, Head(buf), blockSize, pe),
             LAMBDA p :
               [storage |-> PalettedStorage(blockSize,
                                [i \in 1..uint32Count |-> SubSeq(b1, 4 * i - 3, 4 * i)],
                                p.values),
                err |-> p.err, buf |-> p.buf])

\* int8(x) of an int
int8(x) == ((x + 128) % 256) - 128

\* A layer loop that stops after the first layer
decodeStoragesOne(reg, buf, e, count, acc) ==
    IF count = 0 THEN [storages |-> acc, err |-> "nil", buf |-> buf]
    ELSE With(decodePalettedStorage(reg, buf, e, "BlockPaletteEncoding"),
              LAMBDA d :
                IF d.err # "nil" THEN [storages |-> acc, err |-> d.err, buf |-> d.buf]
                ELSE [storages |-> Append(acc, d.storage), err |-> "nil", buf |-> d.buf])

\* The layers of a version 8 or 9 sub-chunk: the loop of count iterations of
\* decodePalettedStorage that stops at the first error. A loop of more than
\* one iteration is run as its first iterations followed by its last ones
RECURSIVE decodeStorages(_, _, _, _, _)
decodeStorages(reg, buf, e, count, acc) ==
    IF count = 0 THEN [storages |-> acc, err |-> "nil", buf |-> buf]
    ELSE IF count = 1
    THEN With(decodePalettedStorage(reg, buf, e, "BlockPaletteEncoding"),
              LAMBDA d :
                IF d.err # "nil" THEN [storages |-> acc, err |-> d.err, buf |-> d.buf]
                ELSE [storages |-> Append(acc, d.storage), err |-> "nil", buf |-> d.buf])
    ELSE With(decodeStorages(reg, buf, e, count \div 2, acc),
              LAMBDA h :
                IF h.err # "nil" THEN h
                ELSE decodeStorages(reg, h.buf, e, count - (count \div 2), h.storages))

\* A nil *SubChunk
NilSubChunk == [storages |-> <<NilStorage>>]

\* decodeSubChunk: the sub-chunk (none on an error), the error, the slot index
\* as the call leaves it, and the bytes left
decodeSubChunk(reg, buf, c, idx, e) ==
    IF buf = <<>>
    THEN [sub |-> NilSubChunk, err |-> "error reading version", index |-> idx, buf |-> buf]
    ELSE
    LET ver == Head(buf)
        b1 == Tail(buf)
    IN  CASE ver = 1 ->
            With(decodePalettedStorage(reg, b1, e, "BlockPaletteEncoding"),
                 LAMBDA d :
                   IF d.err # "nil"
                   THEN [sub |-> NilSubChunk, err |-> d.err, index |-> idx, buf |-> d.buf]
                   ELSE [sub |-> [storages |-> <<d.storage>>], err |-> "nil",
                         index |-> idx, buf |-> d.buf])
          [] ver \in {8, 9} ->
            IF b1 = <<>>
            THEN [sub |-> NilSubChunk, err |-> "error reading storage count",
                  index |-> idx, buf |-> b1]
            ELSE
            LET storageCount == Head(b1)
                b2 == Tail(b1)
            IN  IF ver = 9 /\ b2 = <<>>
                THEN [sub |-> NilSubChunk, err |-> "error reading sub-chunk index",
                      index |-> idx, buf |-> b2]
                ELSE
                LET idx2 == IF ver = 9
                              THEN uint8(int8(Head(b2)) - int8(Shr4(c.r[1])))
                              ELSE idx
                    b3 == IF ver = 9 THEN Tail(b2) ELSE b2
                IN  With(decodeStorages(reg, b3, e, storageCount, <<>>),
                         LAMBDA d :
                           IF d.err # "nil"
                           THEN [sub |-> NilSubChunk, err |-> d.err, index |-> idx2,
                                 buf |-> d.buf]
                           ELSE [sub |-> [storages |-> d.storages], err |-> "nil",
                                 index |-> idx2, buf |-> d.buf])
          [] OTHER ->
            [sub |-> NilSubChunk, err |-> "unknown sub chunk version",
             index |-> idx, buf |-> b1]

\* A nil *chunk.Chunk
NilChunk == [r |-> <<0, -1>>, air |-> 0, sub |-> <<>>, biomes |-> <<>>]

\* A biome loop that never notes the storage it decoded last
RECURSIVE decodeBiomesNoLast(_, _, _, _, _, _)
decodeBiomesNoLast(reg, buf, biomes, i, last, e) ==
    IF i > Len(biomes) THEN [biomes |-> biomes, err |-> "nil"]
    ELSE With(decodePalettedStorage(reg, buf, e, "BiomePaletteEncoding"),
              LAMBDA d :
                IF d.err # "nil" THEN [biomes |-> biomes, err |-> d.err]
                ELSE IF i = 1 /\ d.storage = NilStorage
                THEN [biomes |-> biomes,
                      err |-> "first biome storage pointed to previous one"]
                ELSE LET b == IF d.storage = NilStorage THEN last ELSE d.storage
                     IN  decodeBiomesNoLast(reg, d.buf, [biomes EXCEPT ![i] = b],
                                            i + 1, last, e))

\* decodeBiomes: the biome storages of c; an inherit header takes the storage
\* decoded last, and is an error at the first one
RECURSIVE decodeBiomesFrom(_, _, _, _, _, _)
decodeBiomesFrom(reg, buf, biomes, i, last, e) ==
    IF i > Len(biomes) THEN [biomes |-> biomes, err |-> "nil"]
    ELSE With(decodePalettedStorage(reg, buf, e, "BiomePaletteEncoding"),
              LAMBDA d :
                IF d.err # "nil" THEN [biomes |-> biomes, err |-> d.err]
                ELSE IF i = 1 /\ d.storage = NilStorage
                THEN [biomes |-> biomes,
                      err |-> "first biome storage pointed to previous one"]
                ELSE LET b == IF d.storage = NilStorage THEN last ELSE d.storage
                     IN  decodeBiomesFrom(reg, d.buf, [biomes EXCEPT ![i] = b],
                                          i + 1, b, e))

decodeBiomes(reg, buf, c, e) ==
    IF Len(buf) # 0 THEN decodeBiomesFrom(reg, buf, c.biomes, 1, NilStorage, e)
    ELSE [biomes |-> c.biomes, err |-> "nil"]

\* DiskDecode: (chunk, err), the chunk nil with an error. The slot that
\* receives a sub-chunk is c.sub[index], and Go leaves open whether index is
\* read before decodeSubChunk changes it or after: late says which the build
\* does. A slot outside c.sub panics.
RECURSIVE diskDecodeSubs(_, _, _, _, _)
diskDecodeSubs(reg, data, c, i, late) ==
    IF i > Len(data.SubChunks) THEN [chunk |-> c, err |-> "nil"]
    ELSE IF Len(data.SubChunks[i]) = 0 THEN diskDecodeSubs(reg, data, c, i + 1, late)
    ELSE With(decodeSubChunk(reg, data.SubChunks[i], c, uint8(i - 1), "DiskEncoding"),
              LAMBDA d :
                LET slot == IF late THEN d.index ELSE uint8(i - 1)
                IN  IF slot >= Len(c.sub)
                    THEN [chunk |-> NilChunk, err |-> "panic: index out of range"]
                    ELSE IF d.err # "nil" THEN [chunk |-> NilChunk, err |-> d.err]
                    ELSE diskDecodeSubs(reg, data, [c EXCEPT !.sub[slot + 1] = d.sub],
                                        i + 1, late))

DiskDecode(reg, data, r, late) ==
    With(StateToRuntimeID(reg, "minecraft:air", NoProperties),
         LAMBDA air :
           IF ~air.found
           THEN [chunk |-> NilChunk, err |-> "panic: cannot find air runtime ID"]
           ELSE With(decodeBiomes(reg, data.Biomes, New(air.rid, r), "DiskEncoding"),
                     LAMBDA b :
                       IF b.err # "nil" THEN [chunk |-> NilChunk, err |-> b.err]
                       ELSE diskDecodeSubs(reg, data,
                                [New(air.rid, r) EXCEPT !.biomes = b.biomes], 1, late)))

\* The table from block hashes to runtime IDs; a hash it lacks reads as 0
ridHashLookup == [h \in {100, 101} |-> h - 99]

\* The palettes of the layers of a sub-chunk, each value looked up by its hash
hashedPalettes(sub) ==
    [storages |->
        [k \in DOMAIN sub.storages |->
            [sub.storages[k] EXCEPT !.palette =
                [j \in DOMAIN sub.storages[k].palette |->
                    LET v == sub.storages[k].palette[j]
                    IN  IF v \in DOMAIN ridHashLookup THEN ridHashLookup[v] ELSE 0]]]]

\* The sub-chunk loop of NetworkDecode from sub-chunk i on: the chunk, the
\* error and the bytes left. The palettes looked up by hash are those of
\* c.sub[index] with the index as decodeSubChunk left it
RECURSIVE networkDecodeSubs(_, _, _, _, _, _, _)
networkDecodeSubs(reg, buf, c, i, count, hashedRids, late) ==
    IF i >= count THEN [chunk |-> c, err |-> "nil", buf |-> buf]
    ELSE With(decodeSubChunk(reg, buf, c, uint8(i), "NetworkEncoding"),
              LAMBDA d :
                LET slot == IF late THEN d.index ELSE uint8(i)
                    c1 == [c EXCEPT !.sub[slot + 1] = d.sub]
                IN  IF slot >= Len(c.sub)
                    THEN [chunk |-> NilChunk, err |-> "panic: index out of range",
                          buf |-> d.buf]
                    ELSE IF d.err # "nil"
                    THEN [chunk |-> NilChunk, err |-> d.err, buf |-> d.buf]
                    ELSE IF ~hashedRids
                    THEN networkDecodeSubs(reg, d.buf, c1, i + 1, count, hashedRids, late)
                    ELSE IF d.index >= Len(c.sub)
                    THEN [chunk |-> NilChunk, err |-> "panic: index out of range",
                          buf |-> d.buf]
                    ELSE IF \E k \in DOMAIN c1.sub[d.index + 1].storages :
                                c1.sub[d.index + 1].storages[k] = NilStorage
                    THEN [chunk |-> NilChunk, err |-> "panic: nil pointer dereference",
                          buf |-> d.buf]
                    ELSE networkDecodeSubs(reg, d.buf,
                             [c1 EXCEPT !.sub[d.index + 1] =
                                            hashedPalettes(c1.sub[d.index + 1])],
                             i + 1, count, hashedRids, late))

\* buf.Read(biomes) into 256 zero bytes: an error only when nothing is left,
\* else the bytes there are, the rest staying zero
readOldBiomes(buf) ==
    IF buf = <<>> THEN [biomes |-> Zeros(256), err |-> "error reading biomes", buf |-> buf]
    ELSE [biomes |-> [k \in 1..256 |-> IF k <= Len(buf) THEN buf[k] ELSE 0],
          err |-> "nil", buf |-> Drop(buf, 256)]

\* The biome storage SetBiome leaves at every Y for the 2D array ids: the
\* biome of each column
columnBiomes(ids) == [columns |-> ids]

\* The biome loop of NetworkDecode
RECURSIVE networkDecodeBiomes(_, _, _, _, _)
networkDecodeBiomes(reg, buf, biomes, i, last) ==
    IF i > Len(biomes) THEN [biomes |-> biomes, err |-> "nil", buf |-> buf]
    ELSE With(decodePalettedStorage(reg, buf, "NetworkEncoding", "BiomePaletteEncoding"),
              LAMBDA d :
                IF d.err # "nil" THEN [biomes |-> biomes, err |-> d.err, buf |-> d.buf]
                ELSE IF i = 1 /\ d.storage = NilStorage
                THEN [biomes |-> biomes,
                      err |-> "first biome storage pointed to previous one", buf |-> d.buf]
                ELSE LET b == IF d.storage = NilStorage THEN last ELSE d.storage
                     IN  networkDecodeBiomes(reg, d.buf, [biomes EXCEPT ![i] = b],
                                             i + 1, b))

\* The block NBT that ends a network chunk: a compound is its tag and one
\* byte of content, 0 for an empty one; a lone zero byte is allowed and
\* decodes to an empty compound; empty compounds are left out
RECURSIVE decodeBlockNBTs(_, _)
decodeBlockNBTs(buf, acc) ==
    IF buf = <<>> THEN [blockNBTs |-> acc, err |-> "nil"]
    ELSE IF Head(buf) = 0 THEN decodeBlockNBTs(Tail(buf), acc)
    ELSE IF Head(buf) # tagCompound \/ Len(buf) < 2
    THEN [blockNBTs |-> <<>>, err |-> "error decoding block NBT"]
    ELSE decodeBlockNBTs(Drop(buf, 2),
             IF buf[2] = 0 THEN acc ELSE Append(acc, [id |-> buf[2]]))

\* NetworkDecode after its sub-chunk loop returned s
networkDecodeRest(reg, s, oldBiomes) ==
    IF s.err # "nil" THEN [chunk |-> NilChunk, blockNBTs |-> <<>>, err |-> s.err]
    ELSE With(IF oldBiomes
              THEN With(readOldBiomes(s.buf),
                        LAMBDA o : [biomes |-> [k \in DOMAIN s.chunk.biomes |->
                                                   columnBiomes(o.biomes)],
                                    err |-> o.err, buf |-> o.buf])
              ELSE networkDecodeBiomes(reg, s.buf, s.chunk.biomes, 1, NilStorage),
              LAMBDA b :
                IF b.err # "nil"
                THEN [chunk |-> NilChunk, blockNBTs |-> <<>>, err |-> b.err]
                ELSE With(decodeBlockNBTs(b.buf, <<>>),
                          LAMBDA t :
                            IF t.err # "nil"
                            THEN [chunk |-> NilChunk, blockNBTs |-> <<>>, err |-> t.err]
                            ELSE [chunk |-> [s.chunk EXCEPT !.biomes = b.biomes],
                                  blockNBTs |-> t.blockNBTs, err |-> "nil"]))

\* NetworkDecode: (c, blockNBTs, err)
NetworkDecode(reg, air, data, count, oldBiomes, hashedRids, r, late) ==
    With(networkDecodeSubs(reg, data, New(air, r), 0, count, hashedRids, late),
         LAMBDA s : networkDecodeRest(reg, s, oldBiomes))

----------------------------------------------------------------------------
(* The chunk handlers of the provider. f numbers the store operation of the *)
(* call that fails (0: none); the operations of a call are numbered from 1  *)
(* in the order the call issues them.                                       *)

registry == LoadBlockStates

\* The sub-chunk reads of LoadChunk from slot i on, the first being operation n
RECURSIVE loadSubChunks(_, _, _, _, _, _, _)
loadSubChunks(s, key, r, i, n, f, acc) ==
    IF i >= SubChunkCount(r) THEN [SubChunks |-> acc, err |-> "nil"]
    ELSE LET g == Get(s, subChunkKey(key, i, r), n = f)
         IN  IF g.err = "ErrNotFound"
             THEN loadSubChunks(s, key, r, i + 1, n + 1, f, Append(acc, <<>>))
             ELSE IF g.err # "nil"
             THEN [SubChunks |-> acc, err |-> "error reading sub chunk data"]
             ELSE loadSubChunks(s, key, r, i + 1, n + 1, f, Append(acc, g.data.b))

\* A LoadChunk that hands the whole 3D data blob to the decoder
keepHeightmap(data) == data

\* The biome data of a 3D data blob: the blob without its 512-byte height map
stripHeightmap(data) == IF Len(data) > 512 THEN Drop(data, 512) ELSE data

\* What LoadChunk does once a version key was read with operations 1..k
loadChunkData(s, key, dim, k, f, late) ==
    LET g3 == Get(s, key \o <<key3DData>>, f = k + 1)
        biomes == stripHeightmap(g3.data.b)
    IN  IF g3.err \notin {"nil", "ErrNotFound"}
        THEN [c |-> NilChunk, exists |-> TRUE, err |-> "error reading 3D data"]
        ELSE With(loadSubChunks(s, key, Range(dim), 0, k + 2, f, <<>>),
                  LAMBDA subs :
                    IF subs.err # "nil"
                    THEN [c |-> NilChunk, exists |-> TRUE, err |-> subs.err]
                    ELSE With(DiskDecode(registry,
                                  [SubChunks |-> subs.SubChunks, Biomes |-> biomes],
                                  Range(dim), late),
                              LAMBDA d :
                                [c |-> IF d.err = "nil" THEN d.chunk ELSE NilChunk,
                                 exists |-> TRUE, err |-> d.err]))

\* DB.LoadChunk: (c, exists, err)
LoadChunk(s, position, dim, f, late) ==
    LET key == index(position, dim)
        g1 == Get(s, key \o <<keyVersion>>, f = 1)
        g2 == Get(s, key \o <<keyVersionOld>>, f = 2)
    IN  IF g1.err = "ErrNotFound" /\ g2.err # "nil"
        THEN [c |-> NilChunk, exists |-> FALSE, err |-> "nil"]
        ELSE IF g1.err \notin {"nil", "ErrNotFound"}
        THEN [c |-> NilChunk, exists |-> TRUE, err |-> "error reading version"]
        ELSE loadChunkData(s, key, dim, IF g1.err = "nil" THEN 1 ELSE 2, f, late)

\* The number of store operations a LoadChunk that meets no failure issues
loadChunkOps(s, position, dim) ==
    LET key == index(position, dim)
    IN  IF (key \o <<keyVersion>>) \in DOMAIN s THEN 2 + SubChunkCount(Range(dim))
        ELSE IF (key \o <<keyVersionOld>>) \in DOMAIN s THEN 3 + SubChunkCount(Range(dim))
        ELSE 2

\* The state after a handler returned
Returned(store, name, a, r, snapshot, faulted) ==
    /\ ldb' = store
    /\ op' = name
    /\ arg' = a
    /\ res' = r
    /\ pre' = snapshot
    /\ failures' = failures + (IF faulted THEN 1 ELSE 0)
    /\ UNCHANGED <<blockRegistry, db>>

\* The store writes of SaveChunk, in the order it issues them: <<key, value>>
SaveChunkWrites(position, c, dim) ==
    With(Encode(registry, c),
         LAMBDA data :
           LET key == index(position, dim)
           IN  << <<key \o <<keyVersion>>, Raw(<<chunkVersion>>)>>,
                  <<key \o <<key3DData>>, Raw(Zeros(512) \o data.Biomes)>>,
                  <<key \o <<keyFinalisation>>, Raw(LE32(2))>> >>
               \o [i \in 1..Len(data.SubChunks) |->
                      <<subChunkKey(key, i - 1, c.r), Raw(data.SubChunks[i])>>])

\* Puts issued one after the other, the n-th failing when n = f, errors ignored
RECURSIVE putAll(_, _, _, _)
putAll(s, writes, n, f) ==
    IF writes = <<>> THEN s
    ELSE putAll(Put(s, Head(writes)[1], Head(writes)[2], n = f).s, Tail(writes), n + 1, f)

\* DB.SaveChunk: the store after it, its error, and the store writes it issued
SaveChunk(s, position, c, dim, f) ==
    With(SaveChunkWrites(position, c, dim),
         LAMBDA writes :
           [s |-> putAll(s, writes, 1, f), err |-> "nil", ops |-> Len(writes)])

\* DB.SaveChunk when the program ends after the first k of its store writes
SaveChunkInterrupted(s, position, c, dim, k) ==
    With(SaveChunkWrites(position, c, dim),
         LAMBDA writes :
           [s |-> putAll(s, SubSeq(writes, 1, IF k < Len(writes) THEN k ELSE Len(writes)),
                         1, 0),
            err |-> "nil", ops |-> Len(writes)])

----------------------------------------------------------------------------
(* NBT. A compound is a function from its field names to their values. The  *)
(* items of a value are what an NBT decoder reads from it one after the     *)
(* other; bytes that are not NBT read as a malformed item.                  *)

EmptyCompound == [k \in {} |-> 0]

Items(v) == v.n \o (IF v.b # <<>> THEN <<Malformed>> ELSE <<>>)

\* Whether decoding one compound from the value succeeds
DecodesCompound(v) == Items(v) # <<>> /\ Head(Items(v)) # Malformed

\* m[k] = x on a map
SetField(m, k, x) == [j \in DOMAIN m \cup {k} |-> IF j = k THEN x ELSE m[j]]

\* slices.Contains
Contains(seq, x) == \E i \in DOMAIN seq : seq[i] = x

----------------------------------------------------------------------------
(* Entities. An entity is its type and the compound its type encodes it to; *)
(* a type is saveable when it is a world.SaveableEntityType.                *)

\* The types of the world.EntityRegistry handed to LoadEntities
RegisteredTypes == {"zombie", "player"}

\* The types that implement world.SaveableEntityType
SaveableTypes == {"zombie", "ghost"}

Entity(type, nbt) == [type |-> type, nbt |-> nbt]

\* A nil world.Entity
NilEntity == Entity("", EmptyCompound)

\* EntityRegistry.Lookup
Lookup(name) == name \in RegisteredTypes

\* SaveableEntityType.EncodeNBT, EncodeEntity and DecodeNBT
EncodeNBT(e) == e.nbt
EncodeEntity(type) == type
DecodeNBT(m) == Entity(m.identifier, [k \in DOMAIN m \ {"identifier"} |-> m[k]])

\* DB.loadEntity: the entity of a decoded compound, nil when it has no
\* identifier, an unregistered type or a type that is not saveable; rnd is
\* what rand.Int63() returns
loadEntity(m, rnd) ==
    IF "identifier" \notin DOMAIN m THEN NilEntity
    ELSE IF ~Lookup(m.identifier) THEN NilEntity
    ELSE IF m.identifier \notin SaveableTypes THEN NilEntity
    ELSE DecodeNBT(IF "UniqueID" \in DOMAIN m THEN m ELSE SetField(m, "UniqueID", rnd))

\* a = append(a, e) when e is not nil
appendEntity(a, e) == IF e = NilEntity THEN a ELSE Append(a, e)

\* The loop of LoadEntities over the inline stream
RECURSIVE loadInline(_, _, _)
loadInline(items, rnd, a) ==
    IF items = <<>> THEN [a |-> a, err |-> "nil"]
    ELSE IF Head(items) = Malformed
    THEN [a |-> <<>>, err |-> "error decoding entity NBT"]
    ELSE loadInline(Tail(items), rnd, appendEntity(a, loadEntity(Head(items), rnd)))

\* The loop of LoadEntities over digp, the first read being operation n
RECURSIVE loadActors(_, _, _, _, _, _)
loadActors(s, digp, n, f, rnd, a) ==
    IF digp = <<>> THEN [a |-> a, err |-> "nil", ops |-> n - 1]
    ELSE IF Len(digp) < 8
    THEN [a |-> <<>>, err |-> "panic: slice bounds out of range", ops |-> n - 1]
    ELSE LET g == Get(s, strActorprefix \o Take(digp, 8), n = f)
         IN  IF g.err = "io" THEN [a |-> <<>>, err |-> "io", ops |-> n]
             ELSE IF ~DecodesCompound(g.data)
             THEN [a |-> <<>>, err |-> "error decoding entity NBT", ops |-> n]
             ELSE loadActors(s, Drop(digp, 8), n + 1, f, rnd,
                      appendEntity(a, loadEntity(Head(Items(g.data)), rnd)))

\* DB.LoadEntities: (entities, err), and the store operations it issued
LoadEntities(s, position, dim, f, rnd) ==
    LET g == Get(s, index(position, dim) \o <<keyEntities>>, f = 1)
        d == Get(s, strDigp \o index(position, dim), f = 2)
    IN  IF g.err = "io" THEN [a |-> <<>>, err |-> "io", ops |-> 1]
        ELSE With(loadInline(Items(g.data), rnd, <<>>),
                  LAMBDA inl :
                    IF inl.err # "nil" THEN [a |-> <<>>, err |-> inl.err, ops |-> 1]
                    ELSE IF d.err = "ErrNotFound"
                    THEN [a |-> inl.a, err |-> "nil", ops |-> 2]
                    ELSE IF d.err # "nil" THEN [a |-> <<>>, err |-> "io", ops |-> 2]
                    ELSE loadActors(s, d.data.b, 3, f, rnd, inl.a))

\* The int64s of a digp value
int64s(b) == [i \in 1..(Len(b) \div 8) |-> Int64OfLE(SubSeq(b, 8 * i - 7, 8 * i))]

\* The loop of SaveEntities over the entities, the next store operation being
\* n: the store, the next operation, the UIDs saved and the error
RECURSIVE saveEach(_, _, _, _, _, _)
saveEach(s, entities, n, f, rnd, uniqueIDs) ==
    IF entities = <<>>
    THEN [s |-> s, n |-> n, uniqueIDs |-> uniqueIDs, err |-> "nil"]
    ELSE IF Head(entities).type \notin SaveableTypes
    THEN saveEach(s, Tail(entities), n, f, rnd, uniqueIDs)
    ELSE LET x == SetField(EncodeNBT(Head(entities)), "identifier",
                           EncodeEntity(Head(entities).type))
             uniqueID == IF "UniqueID" \in DOMAIN x THEN x.UniqueID ELSE rnd
             p == Put(s, actorIndex(uniqueID), NBT(<<x>>), n = f)
         IN  IF p.err # "nil"
             THEN [s |-> s, n |-> n + 1, uniqueIDs |-> uniqueIDs,
                   err |-> "save entities: error Adding to db"]
             ELSE saveEach(p.s, Tail(entities), n + 1, f, rnd,
                           Append(uniqueIDs, uniqueID))

\* The loop of SaveEntities that deletes the records of the previous UIDs not
\* saved now; the error of a Delete is dropped
RECURSIVE deleteStale(_, _, _, _, _)
deleteStale(s, previousUniqueIDs, uniqueIDs, n, f) ==
    IF previousUniqueIDs = <<>> THEN [s |-> s, n |-> n]
    ELSE IF Contains(uniqueIDs, Head(previousUniqueIDs))
    THEN deleteStale(s, Tail(previousUniqueIDs), uniqueIDs, n, f)
    ELSE deleteStale(Delete(s, actorIndex(Head(previousUniqueIDs)), n = f).s,
                     Tail(previousUniqueIDs), uniqueIDs, n + 1, f)

\* The digp value of a UID list
digpValue(uniqueIDs) == Concat([i \in 1..Len(uniqueIDs) |-> LE64(uniqueIDs[i])])

\* What SaveEntities does after the entities were written: st is the outcome
\* of deleteStale
saveIndex(st, digpKey, entityKey, entities, uniqueIDs, f) ==
    IF Len(entities) = 0
    THEN LET dl == Delete(st.s, digpKey, st.n = f)
         IN  [s |-> dl.s, err |-> dl.err, ops |-> st.n, uniqueIDs |-> uniqueIDs]
    ELSE LET p == Put(st.s, digpKey, Raw(digpValue(uniqueIDs)), st.n = f)
         IN  IF p.err # "nil"
             THEN [s |-> st.s, err |-> "save entities: error Adding to db",
                   ops |-> st.n, uniqueIDs |-> uniqueIDs]
             ELSE [s |-> Delete(p.s, entityKey, st.n + 1 = f).s, err |-> "nil",
                   ops |-> st.n + 1, uniqueIDs |-> uniqueIDs]

\* DB.SaveEntities: the store after it, its error, the store operations it
\* issued and the UIDs it saved
SaveEntities(s, position, entities, dim, f, rnd) ==
    LET digpKey == strDigp \o index(position, dim)
        g == Get(s, digpKey, f = 1)
    IN  IF g.err = "io" THEN [s |-> s, err |-> "io", ops |-> 1, uniqueIDs |-> <<>>]
        ELSE IF g.err = "nil" /\ Len(g.data.b) % 8 # 0
        THEN [s |-> s, err |-> "panic: slice bounds out of range", ops |-> 1,
              uniqueIDs |-> <<>>]
        ELSE With(saveEach(s, entities, 2, f, rnd, <<>>),
                  LAMBDA w :
                    IF w.err # "nil"
                    THEN [s |-> w.s, err |-> w.err, ops |-> w.n - 1,
                          uniqueIDs |-> w.uniqueIDs]
                    ELSE saveIndex(
                             deleteStale(w.s,
                                 IF g.err = "nil" THEN int64s(g.data.b) ELSE <<>>,
                                 w.uniqueIDs, w.n, f),
                             digpKey, index(position, dim) \o <<keyEntities>>,
                             entities, w.uniqueIDs, f))

----------------------------------------------------------------------------
(* Block entities.                                                          *)

\* DB.LoadBlockNBT
LoadBlockNBT(s, position, dim, f) ==
    LET g == Get(s, index(position, dim) \o <<keyBlockEntities>>, f = 1)
    IN  IF g.err = "io" THEN [a |-> <<>>, err |-> "io", ops |-> 1]
        ELSE IF Contains(Items(g.data), Malformed)
        THEN [a |-> <<>>, err |-> "error decoding block NBT", ops |-> 1]
        ELSE [a |-> Items(g.data), err |-> "nil", ops |-> 1]

\* DB.SaveBlockNBT
SaveBlockNBT(s, position, data, dim, f) ==
    IF Len(data) = 0
    THEN Delete(s, index(position, dim) \o <<keyBlockEntities>>, f = 1)
    ELSE Put(s, index(position, dim) \o <<keyBlockEntities>>, NBT(data), f = 1)

----------------------------------------------------------------------------
(* Players. A UUID is the 36 bytes of its string; a Go int is w * 2^32 + v  *)
(* with v a signed 32-bit value, so that int32() of it is v.                *)

GoInt(w, v) == [w |-> w, v |-> v]
int32(x) == x.v
int(v) == GoInt(0, v)

\* A nil serverData map
NilMap == EmptyCompound

\* The key of the reference record of a player, and the server-data key
\* SavePlayerSpawnPosition gives a player without one
playerKey(id) == strPlayer \o id
playerServerKey(id) == strPlayerServer \o id

\* The playerData struct, and its NBT
playerData(UUID, ServerID, SelfSignedID) ==
    [UUID |-> UUID, ServerID |-> ServerID, SelfSignedID |-> SelfSignedID]

playerDataNBT(d) ==
    [MsaId |-> d.UUID, ServerId |-> d.ServerID, SelfSignedId |-> d.SelfSignedID]

\* nbt.UnmarshalEncoding into a playerData: a field the compound lacks stays ""
unmarshalPlayerData(m) ==
    playerData(IF "MsaId" \in DOMAIN m THEN m.MsaId ELSE <<>>,
               IF "ServerId" \in DOMAIN m THEN m.ServerId ELSE <<>>,
               IF "SelfSignedId" \in DOMAIN m THEN m.SelfSignedId ELSE <<>>)

\* A check of the reference record that leaves out the comparison of its
\* UUID with the one asked for
loadServerDataAnyUUID(s, id, d, n, f) ==
    LET g == Get(s, d.ServerID, f = n)
    IN  IF d.ServerID = <<>>
        THEN [serverData |-> NilMap, key |-> d.ServerID, exists |-> TRUE,
              err |-> "invalid player data", ops |-> n - 1]
        ELSE IF g.err # "nil"
        THEN [serverData |-> NilMap, key |-> d.ServerID, exists |-> TRUE,
              err |-> "error reading server data", ops |-> n]
        ELSE IF ~DecodesCompound(g.data)
        THEN [serverData |-> NilMap, key |-> d.ServerID, exists |-> TRUE,
              err |-> "error decoding server data", ops |-> n]
        ELSE [serverData |-> Head(Items(g.data)), key |-> d.ServerID,
              exists |-> TRUE, err |-> "nil", ops |-> n]

\* What LoadPlayerData does with the reference record d, the read of the
\* server data being operation n
loadServerData(s, id, d, n, f) ==
    LET g == Get(s, d.ServerID, f = n)
    IN  IF d.UUID # id \/ d.ServerID = <<>>
        THEN [serverData |-> NilMap, key |-> d.ServerID, exists |-> TRUE,
              err |-> "invalid player data", ops |-> n - 1]
        ELSE IF g.err # "nil"
        THEN [serverData |-> NilMap, key |-> d.ServerID, exists |-> TRUE,
              err |-> "error reading server data", ops |-> n]
        ELSE IF ~DecodesCompound(g.data)
        THEN [serverData |-> NilMap, key |-> d.ServerID, exists |-> TRUE,
              err |-> "error decoding server data", ops |-> n]
        ELSE [serverData |-> Head(Items(g.data)), key |-> d.ServerID,
              exists |-> TRUE, err |-> "nil", ops |-> n]

\* DB.LoadPlayerData, its first store operation being operation n:
\* (serverData, key, exists, err) and the last operation it issued
LoadPlayerData(s, id, n, f) ==
    LET g == Get(s, playerKey(id), f = n)
    IN  IF g.err = "ErrNotFound"
        THEN [serverData |-> NilMap, key |-> <<>>, exists |-> FALSE, err |-> "nil",
              ops |-> n]
        ELSE IF g.err # "nil"
        THEN [serverData |-> NilMap, key |-> <<>>, exists |-> TRUE,
              err |-> "error reading player data", ops |-> n]
        ELSE IF ~DecodesCompound(g.data)
        THEN [serverData |-> NilMap, key |-> <<>>, exists |-> TRUE,
              err |-> "error decoding player data", ops |-> n]
        ELSE loadServerData(s, id, unmarshalPlayerData(Head(Items(g.data))), n + 1, f)

ZeroPos == <<int(0), int(0), int(0)>>

\* DB.LoadPlayerSpawnPosition: (pos, exists, err)
LoadPlayerSpawnPosition(s, id, f) ==
    With(LoadPlayerData(s, id, 1, f),
         LAMBDA r :
           IF ~r.exists \/ r.err # "nil"
           THEN [pos |-> ZeroPos, exists |-> r.exists, err |-> r.err, ops |-> r.ops]
           ELSE IF ~({"SpawnX", "SpawnY", "SpawnZ"} \subseteq DOMAIN r.serverData)
           THEN [pos |-> ZeroPos, exists |-> TRUE,
                 err |-> "error reading spawn fields from server data", ops |-> r.ops]
           ELSE [pos |-> <<int(r.serverData.SpawnX), int(r.serverData.SpawnY),
                           int(r.serverData.SpawnZ)>>,
                 exists |-> TRUE, err |-> "nil", ops |-> r.ops])

\* Spawn fields that hold the Z coordinate in SpawnY and the Y coordinate in
\* SpawnZ
withSpawnSwapped(d, pos) ==
    SetField(SetField(SetField(d, "SpawnX", int32(pos[1])),
                      "SpawnY", int32(pos[3])),
             "SpawnZ", int32(pos[2]))

\* The spawn fields alone, the other fields of d dropped
withSpawnOnly(d, pos) ==
    [k \in {"SpawnX", "SpawnY", "SpawnZ"} |->
        IF k = "SpawnX" THEN int32(pos[1])
        ELSE IF k = "SpawnY" THEN int32(pos[2]) ELSE int32(pos[3])]

\* d with the spawn fields set to the int32 of the coordinates of pos
withSpawn(d, pos) ==
    SetField(SetField(SetField(d, "SpawnX", int32(pos[1])),
                      "SpawnY", int32(pos[2])),
             "SpawnZ", int32(pos[3]))

\* The write of the server data d under key k, as operation n
putServerData(s, d, k, pos, n, f) ==
    LET p == Put(s, k, NBT(<<withSpawn(d, pos)>>), n = f)
    IN  [s |-> p.s, ops |-> n, key |-> k,
         err |-> IF p.err = "nil" THEN "nil" ELSE "error writing server data"]

\* What SavePlayerSpawnPosition does for a player that has no reference record
createPlayer(s, id, pos, f) ==
    LET k == playerServerKey(id)
        p == Put(s, playerKey(id), NBT(<<playerDataNBT(playerData(id, k, <<>>))>>),
                 f = 2)
    IN  IF p.err # "nil"
        THEN [s |-> s, ops |-> 2, key |-> k, err |-> "error writing player data"]
        ELSE putServerData(p.s, EmptyCompound, k, pos, 3, f)

\* A SavePlayerSpawnPosition that treats every player as one without a record
updatePlayerAsNew(s, id, pos, f, r) == createPlayer(s, id, pos, f)

\* What it does for any other outcome of its read: r is what LoadPlayerData
\* returned. With no record and no error the server data is a nil map, and the
\* assignment to it panics
updatePlayer(s, id, pos, f, r) ==
    IF r.err # "nil" THEN [s |-> s, ops |-> r.ops, key |-> r.key, err |-> r.err]
    ELSE IF ~r.exists
    THEN [s |-> s, ops |-> r.ops, key |-> r.key,
          err |-> "panic: assignment to entry in nil map"]
    ELSE putServerData(s, r.serverData, r.key, pos, r.ops + 1, f)

\* DB.SavePlayerSpawnPosition: the store after it, its error, the store
\* operations it issued and the server-data key it used
SavePlayerSpawnPosition(s, id, pos, f) ==
    IF Get(s, playerKey(id), f = 1).err = "ErrNotFound"
    THEN createPlayer(s, id, pos, f)
    ELSE updatePlayer(s, id, pos, f, LoadPlayerData(s, id, 2, f))

----------------------------------------------------------------------------
(* The chunk specification: SaveChunk and LoadChunk on a store that starts  *)
(* empty or holds chunks written by an earlier run or another program.      *)

\* The last store operation of a call that may be the one to fail, and the
\* failures one behaviour meets
MaxFault == 4
MaxFailures == 1

Positions == {<<-1, 2>>}
SaveDims == {"Overworld", "Nether"}
ChunkDims == {"Overworld", "Nether", "Overworld_legacy"}

\* The operation a call may see fail: none once MaxFailures have happened
Faults == IF failures < MaxFailures THEN 0..MaxFault ELSE {0}

\* A storage of two palette entries: one bit per index, 128 words
TwoBlocks(a, b) == PalettedStorage(1, [i \in 1..128 |-> <<5, 0, 0, 128>>], <<a, b>>)

\* The chunks saved: an empty one, and one with layers at its lowest and
\* highest sub-chunk and biomes that repeat and change
ChunkA(r) == New(0, r)

ChunkB(r) ==
    [New(0, r) EXCEPT
        !.sub[1] = [storages |-> <<emptyStorage(1)>>],
        !.sub[SubChunkCount(r)] = [storages |-> <<TwoBlocks(0, 3), emptyStorage(2)>>],
        !.biomes[1] = emptyStorage(1),
        !.biomes[2] = emptyStorage(1),
        !.biomes[3] = TwoBlocks(1, 4)]

Chunks(r) == {ChunkA(r), ChunkB(r)}

\* The store of an older world. At <<-1, 2>> in the overworld a chunk with only
\* the legacy version key, a version 8 and a version 1 sub-chunk and no biome
\* blob; at <<-1, 2>> in the nether chunk data with no version key at all
OldWorldStore ==
    LET key == index(<<-1, 2>>, "Overworld")
        nether == index(<<-1, 2>>, "Nether")
        layer == <<0>> \o blockNBT("minecraft:stone", [stone_type |-> PString(<<115>>)])
    IN  (key \o <<keyVersionOld>>) :> Raw(<<7>>)
        @@ subChunkKey(key, 4, Range("Overworld")) :> Raw(<<8, 1>> \o layer)
        @@ subChunkKey(key, 5, Range("Overworld")) :> Raw(<<1>> \o layer)
        @@ (nether \o <<key3DData>>) :> Raw(Zeros(512) \o <<0, 1, 0, 0, 0>>)
        @@ subChunkKey(nether, 0, Range("Nether")) :> Raw(<<9, 0, 0>>)

InitStores == {EmptyStore, OldWorldStore}

NoWritten == [k \in {} |-> [c |-> NilChunk, dim |-> ""]]

Init ==
    /\ ldb \in InitStores
    /\ op = "init"
    /\ arg = [position |-> <<0, 0>>]
    /\ res = [err |-> "nil"]
    /\ pre = EmptyStore
    /\ failures = 0
    /\ written = NoWritten
    /\ blockRegistry = registry
    /\ db = OpenedDB

\* The chunks written in full after a SaveChunk of c at key
Written(w, key, c, dim, faulted) ==
    IF faulted THEN [k \in DOMAIN w \ {key} |-> w[k]]
    ELSE [k \in DOMAIN w \cup {key} |-> IF k = key THEN [c |-> c, dim |-> dim] ELSE w[k]]

SaveChunkDone(position, c, dim, f, r) ==
    /\ Returned(r.s, "SaveChunk", [position |-> position, dim |-> dim, c |-> c],
                [err |-> r.err, faulted |-> f \in 1..r.ops], EmptyStore,
                f \in 1..r.ops)
    /\ written' = Written(written, index(position, dim), c, dim, f \in 1..r.ops)

SaveChunkAct ==
    \E position \in Positions, dim \in SaveDims, f \in Faults :
      \E c \in Chunks(Range(dim)) :
        SaveChunkDone(position, c, dim, f, SaveChunk(ldb, position, c, dim, f))

LoadChunkDone(position, dim, faulted, r) ==
    /\ Returned(ldb, "LoadChunk", [position |-> position, dim |-> dim],
                [c |-> r.c, exists |-> r.exists, err |-> r.err, faulted |-> faulted],
                EmptyStore, faulted)
    /\ UNCHANGED written

LoadChunkAct ==
    \E position \in Positions, dim \in ChunkDims, f \in Faults, late \in BOOLEAN :
        LoadChunkDone(position, dim, f \in 1..loadChunkOps(ldb, position, dim),
                      LoadChunk(ldb, position, dim, f, late))

Next == SaveChunkAct \/ LoadChunkAct

Spec == Init /\ [][Next]_vars

----------------------------------------------------------------------------
(* The interruption specification: the program ends between two store       *)
(* writes of a SaveChunk, and chunks are loaded from the store it leaves.   *)

\* Whether the store has a key of the chunk at a position and dimension
HasChunkKeys(s, position, dim) ==
    \E k \in DOMAIN s :
        /\ Len(k) > Len(index(position, dim))
        /\ SubSeq(k, 1, Len(index(position, dim))) = index(position, dim)

InitInterrupted ==
    /\ ldb = EmptyStore
    /\ op = "init"
    /\ arg = [position |-> <<0, 0>>]
    /\ res = [err |-> "nil"]
    /\ pre = EmptyStore
    /\ failures = 0
    /\ written = NoWritten
    /\ blockRegistry = registry
    /\ db = OpenedDB

\* written keeps, per chunk prefix, the chunk of the interrupted SaveChunk and
\* whether the store had no key of the chunk before it
SaveChunkInterruptedDone(position, c, dim, k, r) ==
    /\ k < r.ops
    /\ Returned(r.s, "SaveChunk interrupted",
                [position |-> position, dim |-> dim, c |-> c, k |-> k],
                [err |-> r.err, faulted |-> FALSE], ldb, FALSE)
    /\ written' =
          [key \in DOMAIN written \cup {index(position, dim)} |->
              IF key = index(position, dim)
              THEN [c |-> c, dim |-> dim, absent |-> ~HasChunkKeys(ldb, position, dim)]
              ELSE written[key]]

\* The program ends once in a behaviour; what follows is the next run
SaveChunkInterruptedAct ==
    /\ written = NoWritten
    /\ \E position \in Positions, dim \in SaveDims :
         \E c \in Chunks(Range(dim)) :
           \E k \in 1..(SubChunkCount(Range(dim)) + 2) :
             SaveChunkInterruptedDone(position, c, dim, k,
                                      SaveChunkInterrupted(ldb, position, c, dim, k))

NextInterrupted == SaveChunkInterruptedAct \/ LoadChunkAct

SpecInterrupted == InitInterrupted /\ [][NextInterrupted]_vars

----------------------------------------------------------------------------
(* The entity specification: SaveEntities, LoadEntities, SaveBlockNBT and   *)
(* LoadBlockNBT on two chunks of a store that starts empty or holds the     *)
(* entities of an older world, some of them damaged.                        *)

\* The chunks read, and those written: position and dimension
EntityChunks == {<<<<0, 0>>, "Overworld">>, <<<<0, 1>>, "Nether">>}
SaveEntityChunks == {<<<<0, 0>>, "Overworld">>}

EntityA == Entity("zombie", [UniqueID |-> 1, Health |-> 20])
EntityB == Entity("zombie", [UniqueID |-> -2, Health |-> 5])
\* An entity without a UniqueID, a player (not saveable), and an entity of a
\* saveable type that the registry of LoadEntities does not hold
EntityN == Entity("zombie", [Health |-> 9])
EntityP == Entity("player", [UniqueID |-> 3])
EntityG == Entity("ghost", [UniqueID |-> 4])

EntityLists ==
    {<<>>, <<EntityA>>, <<EntityB, EntityA>>, <<EntityP>>, <<EntityN, EntityP>>,
     <<EntityG>>}

\* What rand.Int63() may return
RandUIDs == {7}

\* The entity NBT of a zombie as the store holds it
zombieNBT(uid, health) == [identifier |-> "zombie", UniqueID |-> uid, Health |-> health]

\* An older world: at <<0, 0>> an inline stream with a zombie, a record
\* without identifier and a record of an unregistered type, and a digp that
\* lists the stored zombie 1
OldEntityStore ==
    (index(<<0, 0>>, "Overworld") \o <<keyEntities>>) :>
        NBT(<<zombieNBT(5, 1), [Health |-> 3],
              [identifier |-> "villager", UniqueID |-> 6]>>)
    @@ (strDigp \o index(<<0, 0>>, "Overworld")) :> Raw(LE64(1))
    @@ actorIndex(1) :> NBT(<<zombieNBT(1, 7)>>)
    @@ (index(<<0, 0>>, "Overworld") \o <<keyBlockEntities>>) :>
        NBT(<<[id |-> "Chest", x |-> 1]>>)

\* A damaged world: at <<0, 0>> a digp that lists zombie 1 and an entity 9
\* that has no record; at <<0, 1>> in the nether an inline stream whose second
\* record is malformed, a digp whose record is malformed, and malformed block
\* NBT
DamagedEntityStore ==
    (strDigp \o index(<<0, 0>>, "Overworld")) :> Raw(LE64(1) \o LE64(9))
    @@ actorIndex(1) :> NBT(<<zombieNBT(1, 7)>>)
    @@ (index(<<0, 1>>, "Nether") \o <<keyEntities>>) :>
        NBT(<<zombieNBT(5, 1), Malformed>>)
    @@ (strDigp \o index(<<0, 1>>, "Nether")) :> Raw(LE64(8))
    @@ actorIndex(8) :> NBT(<<Malformed>>)
    @@ (index(<<0, 1>>, "Nether") \o <<keyBlockEntities>>) :>
        NBT(<<[id |-> "Chest", x |-> 1], Malformed>>)

EntityStores == {EmptyStore, OldEntityStore, DamagedEntityStore}

BlockNBTLists == {<<>>, <<[id |-> "Sign", x |-> 2]>>}

InitEntities ==
    /\ ldb \in EntityStores
    /\ op = "init"
    /\ arg = [position |-> <<0, 0>>]
    /\ res = [err |-> "nil"]
    /\ pre = EmptyStore
    /\ failures = 0
    /\ written = NoWritten
    /\ blockRegistry = registry
    /\ db = OpenedDB

\* The UIDs the digp value of a chunk lists (none when it has no digp key)
UIDsListed(s, position, dim) ==
    IF (strDigp \o index(position, dim)) \in DOMAIN s
    THEN int64s(s[strDigp \o index(position, dim)].b)
    ELSE <<>>

SaveEntitiesDone(position, entities, dim, f, r) ==
    /\ Returned(r.s, "SaveEntities",
                [position |-> position, dim |-> dim, entities |-> entities],
                [err |-> r.err, faulted |-> f \in 1..r.ops, uniqueIDs |-> r.uniqueIDs,
                 previous |-> UIDsListed(ldb, position, dim),
                 inline |-> (index(position, dim) \o <<keyEntities>>) \in DOMAIN ldb],
                EmptyStore, f \in 1..r.ops)
    /\ UNCHANGED written

SaveEntitiesAct ==
    \E ch \in SaveEntityChunks, entities \in EntityLists, f \in Faults,
       rnd \in RandUIDs :
        SaveEntitiesDone(ch[1], entities, ch[2], f,
                         SaveEntities(ldb, ch[1], entities, ch[2], f, rnd))

LoadEntitiesDone(position, dim, f, r) ==
    /\ Returned(ldb, "LoadEntities", [position |-> position, dim |-> dim],
                [a |-> r.a, err |-> r.err, faulted |-> f \in 1..r.ops],
                EmptyStore, f \in 1..r.ops)
    /\ UNCHANGED written

LoadEntitiesAct ==
    \E ch \in EntityChunks, f \in Faults, rnd \in RandUIDs :
        LoadEntitiesDone(ch[1], ch[2], f, LoadEntities(ldb, ch[1], ch[2], f, rnd))

SaveBlockNBTDone(position, data, dim, f, r) ==
    /\ Returned(r.s, "SaveBlockNBT",
                [position |-> position, dim |-> dim, data |-> data],
                [err |-> r.err, faulted |-> f = 1], EmptyStore, f = 1)
    /\ UNCHANGED written

SaveBlockNBTAct ==
    \E ch \in SaveEntityChunks, data \in BlockNBTLists, f \in Faults :
        SaveBlockNBTDone(ch[1], data, ch[2], f,
                         SaveBlockNBT(ldb, ch[1], data, ch[2], f))

LoadBlockNBTDone(position, dim, f, r) ==
    /\ Returned(ldb, "LoadBlockNBT", [position |-> position, dim |-> dim],
                [a |-> r.a, err |-> r.err, faulted |-> f \in 1..r.ops],
                EmptyStore, f \in 1..r.ops)
    /\ UNCHANGED written

LoadBlockNBTAct ==
    \E ch \in EntityChunks, f \in Faults :
        LoadBlockNBTDone(ch[1], ch[2], f, LoadBlockNBT(ldb, ch[1], ch[2], f))

NextEntities ==
    SaveEntitiesAct \/ LoadEntitiesAct \/ SaveBlockNBTAct \/ LoadBlockNBTAct

SpecEntities == InitEntities /\ [][NextEntities]_vars

----------------------------------------------------------------------------
(* The player specification: SavePlayerSpawnPosition, LoadPlayerSpawnPosition *)
(* and LoadPlayerData on three players of a store that starts empty or      *)
(* holds the records of two of them.                                        *)

\* The string of a UUID, c its last character
uuid(c) ==
    [i \in 1..36 |-> IF i \in {9, 14, 19, 24} THEN 45 ELSE IF i = 36 THEN c ELSE 48]

PlayerIDs == {uuid(49), uuid(50), uuid(51)}

\* Player 2 has a valid record whose server data lies under the key another
\* program chose and holds no spawn position; the record of player 3 names
\* another UUID
PlayerStore ==
    playerKey(uuid(50)) :>
        NBT(<<playerDataNBT(playerData(uuid(50), playerServerKey(uuid(57)), <<>>))>>)
    @@ playerServerKey(uuid(57)) :> NBT(<<[XP |-> 30]>>)
    @@ playerKey(uuid(51)) :>
        NBT(<<playerDataNBT(playerData(uuid(50), playerServerKey(uuid(51)), <<>>))>>)
    @@ playerServerKey(uuid(51)) :> NBT(<<[XP |-> 4]>>)

\* Records LoadPlayerData has to refuse: player 1's has an empty server ID,
\* player 2's has none, player 3's names another UUID; each of the keys they
\* point at holds server data
BadPlayerStore ==
    playerKey(uuid(49)) :> NBT(<<playerDataNBT(playerData(uuid(49), <<>>, <<>>))>>)
    @@ <<>> :> NBT(<<[XP |-> 1]>>)
    @@ playerKey(uuid(50)) :> NBT(<<[MsaId |-> uuid(50), SelfSignedId |-> <<>>]>>)
    @@ playerKey(uuid(51)) :>
        NBT(<<playerDataNBT(playerData(uuid(50), playerServerKey(uuid(51)), <<>>))>>)
    @@ playerServerKey(uuid(51)) :> NBT(<<[XP |-> 4]>>)

PlayerStores == {EmptyStore, PlayerStore, BadPlayerStore}

\* Spawn positions: the last has an X that does not fit 32 bits
SpawnPositions ==
    {<<GoInt(0, 10), GoInt(0, 64), GoInt(0, -5)>>,
     <<GoInt(0, -1), GoInt(0, 0), GoInt(0, 7)>>,
     <<GoInt(1, 10), GoInt(0, 64), GoInt(0, -5)>>}

InitPlayers ==
    /\ ldb \in PlayerStores
    /\ op = "init"
    /\ arg = [id |-> <<>>]
    /\ res = [err |-> "nil"]
    /\ pre = EmptyStore
    /\ failures = 0
    /\ written = NoWritten
    /\ blockRegistry = registry
    /\ db = OpenedDB

\* The spawn positions saved in full after SavePlayerSpawnPosition returned err
Saved(w, key, pos, err) ==
    IF err # "nil" THEN [k \in DOMAIN w \ {key} |-> w[k]]
    ELSE [k \in DOMAIN w \cup {key} |-> IF k = key THEN [pos |-> pos] ELSE w[k]]

SavePlayerSpawnPositionDone(id, pos, f, r) ==
    /\ Returned(r.s, "SavePlayerSpawnPosition", [id |-> id, pos |-> pos],
                [err |-> r.err, faulted |-> f \in 1..r.ops, key |-> r.key],
                ldb, f \in 1..r.ops)
    /\ written' = Saved(written, playerKey(id), pos, r.err)

SavePlayerSpawnPositionAct ==
    \E id \in PlayerIDs, pos \in SpawnPositions, f \in Faults :
        SavePlayerSpawnPositionDone(id, pos, f,
                                    SavePlayerSpawnPosition(ldb, id, pos, f))

LoadPlayerSpawnPositionDone(id, f, r) ==
    /\ Returned(ldb, "LoadPlayerSpawnPosition", [id |-> id],
                [pos |-> r.pos, exists |-> r.exists, err |-> r.err,
                 faulted |-> f \in 1..r.ops],
                EmptyStore, f \in 1..r.ops)
    /\ UNCHANGED written

LoadPlayerSpawnPositionAct ==
    \E id \in PlayerIDs, f \in Faults :
        LoadPlayerSpawnPositionDone(id, f, LoadPlayerSpawnPosition(ldb, id, f))

LoadPlayerDataDone(id, f, r) ==
    /\ Returned(ldb, "LoadPlayerData", [id |-> id],
                [serverData |-> r.serverData, key |-> r.key, exists |-> r.exists,
                 err |-> r.err, faulted |-> f \in 1..r.ops, ops |-> r.ops],
                EmptyStore, f \in 1..r.ops)
    /\ UNCHANGED written

LoadPlayerDataAct ==
    \E id \in PlayerIDs, f \in Faults :
        LoadPlayerDataDone(id, f, LoadPlayerData(ldb, id, 1, f))

NextPlayers ==
    SavePlayerSpawnPositionAct \/ LoadPlayerSpawnPositionAct \/ LoadPlayerDataAct

SpecPlayers == InitPlayers /\ [][NextPlayers]_vars

----------------------------------------------------------------------------
(* The read specification: the four read paths of the provider on a store   *)
(* that is empty or holds an older world.                                   *)

ReadStores ==
    {EmptyStore, OldWorldStore, OldEntityStore, DamagedEntityStore, PlayerStore,
     OldWorldStore @@ OldEntityStore @@ PlayerStore}

InitReads ==
    /\ ldb \in ReadStores
    /\ op = "init"
    /\ arg = [position |-> <<0, 0>>]
    /\ res = [err |-> "nil"]
    /\ pre = EmptyStore
    /\ failures = 0
    /\ written = NoWritten
    /\ blockRegistry = registry
    /\ db = OpenedDB

NextReads == LoadChunkAct \/ LoadEntitiesAct \/ LoadBlockNBTAct \/ LoadPlayerDataAct

SpecReads == InitReads /\ [][NextReads]_vars


----------------------------------------------------------------------------
(* The key specification: DB.index on chunk positions over the whole int32  *)
(* range, for the registered dimensions and one that is not registered.     *)

KeyCoords == {-2147483647 - 1, -65536, -1, 0, 1, 255, 256, 2147483647}
KeyDims == Dimensions \cup {"nopDim"}

InitKeys ==
    /\ ldb = EmptyStore
    /\ op = "init"
    /\ arg = [position |-> <<0, 0>>]
    /\ res = [err |-> "nil"]
    /\ pre = EmptyStore
    /\ failures = 0
    /\ written = NoWritten
    /\ blockRegistry = registry
    /\ db = OpenedDB

indexDone(position, dim, key) ==
    /\ Returned(ldb, "index", [position |-> position, dim |-> dim], [key |-> key],
                EmptyStore, FALSE)
    /\ UNCHANGED written

indexAct ==
    \E x \in KeyCoords, z \in KeyCoords, dim \in KeyDims :
        indexDone(<<x, z>>, dim, index(<<x, z>>, dim))

NextKeys == indexAct

SpecKeys == InitKeys /\ [][NextKeys]_vars

----------------------------------------------------------------------------
(* The hash specification: hashProperties on two property maps, the keys of *)
(* each ranged over in every order.                                         *)

HashKeys == {"age", "color"}

\* The values of a property: true, a uint8 and an int32 of value 1, and
\* strings of "a" and "b"
HashValues ==
    {PBool(TRUE), PUint8(1), PInt32(1), PString(<<>>), PString(<<97>>),
     PString(<<98>>), PString(<<97, 98>>)}

PropertyMaps == UNION {[ks -> HashValues] : ks \in SUBSET HashKeys}

\* The orders a range over the map may yield its keys in
RangeOrders(properties) ==
    {o \in [1..Cardinality(DOMAIN properties) -> DOMAIN properties] :
        \A i, j \in DOMAIN o : o[i] = o[j] => i = j}

\* The calls of hashProperties on a map p and a map q
hashPropertiesCalls ==
    UNION {{[fn |-> "hashProperties", p |-> m[1], q |-> m[2],
             pKeys |-> o[1], qKeys |-> o[2]] :
                o \in RangeOrders(m[1]) \X RangeOrders(m[2])} :
           m \in PropertyMaps \X PropertyMaps}

InitHash ==
    /\ ldb = EmptyStore
    /\ op = "call"
    /\ arg \in hashPropertiesCalls
    /\ res = [err |-> "nil"]
    /\ pre = EmptyStore
    /\ failures = 0
    /\ written = NoWritten
    /\ blockRegistry = registry
    /\ db = OpenedDB

hashPropertiesDone(hp, hq) ==
    /\ Returned(ldb, "hashProperties", arg, [p |-> hp, q |-> hq], EmptyStore, FALSE)
    /\ UNCHANGED written

hashPropertiesAct ==
    /\ op = "call"
    /\ arg.fn = "hashProperties"
    /\ hashPropertiesDone(hashPropertiesRange(arg.p, arg.pKeys),
                          hashPropertiesRange(arg.q, arg.qKeys))

NextHash == hashPropertiesAct

SpecHash == InitHash /\ [][NextHash]_vars

----------------------------------------------------------------------------
(* The registry specification: block states registered one at a time and in *)
(* batches, from the empty registry on. A panic ends the program.           *)

MaxBlocks == 3

\* A property value of a type hashProperties does not take
PFloat32(bytes) == [t |-> "float32", v |-> bytes]

\* The states to register: two names, each with no property, with a property
\* of two types whose bytes are the same, and with one that does not hash;
\* and a water state
RegStates ==
    {BlockState(nm, ps) :
        nm \in {"minecraft:air", "ns:block"},
        ps \in {NoProperties, [age |-> PBool(TRUE)], [age |-> PUint8(1)],
                [age |-> PFloat32(<<0, 0, 128, 63>>)]}}
        \cup {BlockState("minecraft:water", [liquid_depth |-> PInt32(0)])}

\* The batches: every one and every two states of a name, and the empty batch
Batches ==
    {<<>>} \cup {<<a>> : a \in {s \in RegStates : s.name = "ns:block"}}
        \cup {<<a, b>> : a, b \in {s \in RegStates : s.name = "ns:block"}}

\* Custom block entries: a name, the declared properties (each a name and
\* the list enum) and the traits (each the pairs of its enabled_states)
BlockEntry(name, properties, traits) ==
    [name |-> name, properties |-> properties, traits |-> traits]

Colours == <<PString(<<114, 101, 100>>), PString(<<98, 108, 117, 101>>)>>

\* Two colours and facing_direction; a minecraft entry; facing_direction not
\* enabled; a trait traitLookup does not have, enabled and not; and two lists
\* of strings whose concatenations meet (x ++ yz = xy ++ z)
Entries ==
    {BlockEntry("custom:block", <<[name |-> "color", enum |-> Colours]>>,
                << <<<<"facing_direction", 1>>>> >>),
     BlockEntry("minecraft:stone", <<[name |-> "color", enum |-> Colours]>>, <<>>),
     BlockEntry("ns:block", <<[name |-> "color", enum |-> Colours]>>,
                << <<<<"facing_direction", 0>>>> >>),
     BlockEntry("ns:block", <<>>, << <<<<"glow", 1>>>> >>),
     BlockEntry("ns:block", <<>>, << <<<<"glow", 0>>>>, <<<<"facing_direction", 1>>>> >>),
     BlockEntry("ns:block",
                <<[name |-> "age", enum |-> <<PString(<<120>>), PString(<<120, 121>>)>>],
                  [name |-> "color", enum |-> <<PString(<<121, 122>>), PString(<<122>>)>>]>>,
                <<>>)}

\* The entries of one call: one, or two of different names
EntryLists ==
    {<<e>> : e \in Entries}
        \cup {l \in {<<e, f>> : e, f \in Entries} : l[1].name # l[2].name}

\* The states looked up: those registered, and another name
Lookups ==
    {s \in RegStates : hashProperties(s.properties) # <<-1>>}
        \cup {BlockState("minecraft:stone", NoProperties)}

InitRegistry ==
    /\ ldb = EmptyStore
    /\ op = "init"
    /\ arg = [s |-> BlockState("", NoProperties)]
    /\ res = [panicked |-> FALSE]
    /\ blockRegistry \in {ClearStates, NoStates}
    /\ pre = blockRegistry
    /\ db = OpenedDB
    /\ failures = 0
    /\ written = NoWritten

\* A registration returned or panicked; pre is the registry it started from
Registered(name, a, r) ==
    /\ blockRegistry' = r
    /\ op' = name
    /\ arg' = a
    /\ res' = [panicked |-> r.panicked]
    /\ pre' = blockRegistry
    /\ UNCHANGED <<ldb, failures, written, db>>

\* registerBlockState of block_state.go
registerBlockStateAct ==
    /\ blockRegistry.build = "block_state.go"
    /\ ~blockRegistry.panicked
    /\ Len(blockRegistry.blocks) < MaxBlocks
    /\ \E s \in RegStates :
          Registered("registerBlockState", [s |-> s], registerBlockState(blockRegistry, s))

\* registerBlockState of part_003
registerBlockStateOrderAct ==
    /\ blockRegistry.build = "part_003"
    /\ ~blockRegistry.panicked
    /\ Len(blockRegistry.blocks) < MaxBlocks
    /\ \E s \in RegStates, order \in BOOLEAN :
          Registered("registerBlockState", [s |-> s, order |-> order],
                     registerBlockStateOrder(blockRegistry, s, order))

registerBlockStatesAct ==
    /\ blockRegistry.build = "part_003"
    /\ ~blockRegistry.panicked
    /\ Len(blockRegistry.blocks) < MaxBlocks
    /\ \E ss \in Batches :
          Registered("registerBlockStates", [ss |-> ss],
                     registerBlockStates(blockRegistry, ss))

\* chunk.StateToRuntimeID of block_state.go
StateToRuntimeIDAct ==
    /\ blockRegistry.build = "block_state.go"
    /\ ~blockRegistry.panicked
    /\ \E s \in Lookups :
          /\ op' = "StateToRuntimeID"
          /\ arg' = [s |-> s]
          /\ res' = StateToRuntimeID(blockRegistry, s.name, s.properties)
          /\ pre' = blockRegistry
          /\ UNCHANGED <<blockRegistry, ldb, failures, written, db>>

\* InsertCustomBlocks of block_state.go
InsertCustomBlocksAct ==
    /\ blockRegistry.build = "block_state.go"
    /\ ~blockRegistry.panicked
    /\ Len(blockRegistry.blocks) < MaxBlocks
    /\ \E entries \in EntryLists :
          Registered("InsertCustomBlocks", [entries |-> entries],
                     InsertCustomBlocks(blockRegistry, entries))

NextRegistry ==
    \/ registerBlockStateAct
    \/ registerBlockStateOrderAct
    \/ registerBlockStatesAct
    \/ InsertCustomBlocksAct
    \/ StateToRuntimeIDAct

SpecRegistry == InitRegistry /\ [][NextRegistry]_vars

----------------------------------------------------------------------------
(* The closing specification: Close called again and again on a provider,   *)
(* at times that do not go back, any one of its calls failing.              *)

Times == 1..3

LevelNames == {"World", "Old World"}

InitClose ==
    /\ ldb = EmptyStore
    /\ op = "init"
    /\ arg = [now |-> 0, step |-> "none", fault |-> "none"]
    /\ res = [err |-> "nil", calls |-> <<>>]
    /\ db \in {DBOf(name) : name \in LevelNames}
    /\ pre = db
    /\ failures = 0
    /\ written = NoWritten
    /\ blockRegistry = registry

CloseDone(a, r) ==
    /\ db' = r.db
    /\ op' = "Close"
    /\ arg' = a
    /\ res' = [err |-> r.err, calls |-> r.calls]
    /\ pre' = db
    /\ UNCHANGED <<ldb, failures, written, blockRegistry>>

CloseAct ==
    \E now \in Times, step \in {"none", "marshal", "level.dat", "levelname.txt", "ldb.Close"},
       fault \in {"none", "open", "write"} :
        /\ now >= db.ldat.LastPlayed
        /\ (fault # "none") <=> (step \in {"level.dat", "levelname.txt"})
        /\ CloseDone([now |-> now, step |-> step, fault |-> fault],
                     Close(db, now, step, fault))

NextClose == CloseAct

SpecClose == InitClose /\ [][NextClose]_vars

----------------------------------------------------------------------------
(* The decoder specification: the chunk decoders on byte streams that are   *)
(* well formed, cut short at every length, or of a version or size the      *)
(* format does not have. A behaviour starts at a call and its arguments,    *)
(* and the one step it takes is the call returning.                         *)

\* Every prefix of a byte stream, the stream itself included
Prefixes(b) == {SubSeq(b, 1, n) : n \in 0..Len(b)}

\* Sub-chunk streams. Disk layers of size 0 with one block-state record each;
\* a network layer of size 0 with a varint entry; a layer of size 1 cut short
SubChunkStreams ==
    {<<9, 2, 252, 0, tagCompound, 2, 0, tagCompound, 3>>,
     <<9, 1, 5, 0, tagCompound, 2, 77>>,
     <<8, 2, 0, tagCompound, 2, 0, tagCompound, 3, 0, tagCompound, 4>>,
     <<8, 0, 9, 9>>,
     <<1, 0, tagCompound, 2, 0, tagCompound, 3>>,
     <<1, 255, 0, tagCompound, 2>>,
     <<9, 1, 0, 1, 5, 66>>,
     <<8, 1, 2, 1, 2, 3, 4>>,
     <<0, 1, 0, tagCompound, 2>>,
     <<2, 1, 0, tagCompound, 2>>,
     <<7, 1, 0, tagCompound, 2>>,
     <<10, 1, 0, 0, tagCompound, 2>>,
     <<255>>}

SubChunkBufs == UNION {Prefixes(b) : b \in SubChunkStreams}

Encodings == {"DiskEncoding", "NetworkEncoding"}
DecodeDims == {"Overworld", "Nether"}

\* Sub-chunks of the greatest layer count a byte holds, in the network and
\* the disk form of a layer of size 0
FullSubChunks ==
    {<<8, 255>> \o Concat([i \in 1..255 |-> <<1, 4>>]),
     <<9, 255, 0>> \o Concat([i \in 1..255 |-> <<0, tagCompound, 2>>])}

\* The calls of decodeSubChunk
decodeSubChunkCalls ==
    {[fn |-> "decodeSubChunk", buf |-> buf, dim |-> dim, index |-> idx, e |-> e] :
        buf \in SubChunkBufs \cup FullSubChunks, dim \in DecodeDims, idx \in {0, 3},
        e \in Encodings}

\* Biome streams by plan, an item a sub-chunk: "A" a storage of size 0 with
\* biome 1 and a four-byte palette entry, "N" one with biome 4 and a varint
\* entry, "B" a storage of size 1 with biomes 1 and 4, "I" and "J" the two
\* headers that inherit
BiomeItemBytes(item, e) ==
    CASE item = "A" -> <<0>> \o LE32(1)
      [] item = "N" -> <<1, 4>>
      [] item = "B" ->
            IF e = "DiskEncoding"
            THEN <<2>> \o WordBytes([i \in 1..128 |-> <<5, 0, 0, 128>>])
                     \o LE32(2) \o LE32(1) \o LE32(4)
            ELSE <<3>> \o WordBytes([i \in 1..128 |-> <<5, 0, 0, 128>>]) \o <<2, 1, 4>>
      [] item = "I" -> <<255>>
      [] item = "J" -> <<254>>

BiomeStream(plan, e) == Concat([i \in DOMAIN plan |-> BiomeItemBytes(plan[i], e)])

\* The plans of a nether chunk over the items: the first three sub-chunks
\* free, the others inheriting
BiomePlans(items) ==
    {[i \in 1..SubChunkCount(Range("Nether")) |-> IF i <= 3 THEN p[i] ELSE "I"] :
        p \in [1..3 -> items]}

NoSubChunks(dim) == [i \in 1..SubChunkCount(Range(dim)) |-> <<>>]

\* The plan with the item first and inherit above
Above(item) == [i \in 1..SubChunkCount(Range("Nether")) |-> IF i = 1 THEN item ELSE "I"]

\* 128 words of a storage of size 1
Words1 == WordBytes([i \in 1..128 |-> <<5, 0, 0, 128>>])

\* A legacy 2D biome array
OldBiomeBytes == [k \in 1..256 |-> 1 + (k % 3)]

\* Whole disk chunks of the nether: a sub-chunk of one layer of size 1 at the
\* bottom with biomes of size 0, and no sub-chunk with biomes of size 1
DiskWholes ==
    {[SubChunks |-> [NoSubChunks("Nether") EXCEPT ![1] =
                        <<9, 1, 0, 2>> \o Words1 \o LE32(2)
                            \o <<tagCompound, 1, tagCompound, 2>>],
      Biomes |-> BiomeStream(Above("A"), "DiskEncoding")],
     [SubChunks |-> NoSubChunks("Nether"),
      Biomes |-> BiomeStream(Above("B"), "DiskEncoding")]}

\* A whole chunk and the ones that hold a part of its biomes or of its first
\* sub-chunk only
DiskCuts(w) ==
    {[w EXCEPT !.Biomes = b] : b \in Prefixes(w.Biomes) \ {<<>>}}
        \cup {[w EXCEPT !.SubChunks[1] = b] : b \in Prefixes(w.SubChunks[1]) \ {<<>>}}

\* Disk chunks of the nether (8 sub-chunks) by the slots they name: nine
\* entries, the ninth an empty version 8 sub-chunk; a version 9 sub-chunk
\* with Y 8; one with Y -1; one with Y 7 in the first entry
DiskSlotWholes ==
    {[SubChunks |-> NoSubChunks("Nether") \o <<<<8, 0>>>>,
      Biomes |-> BiomeStream(Above("A"), "DiskEncoding")],
     [SubChunks |-> [NoSubChunks("Nether") EXCEPT ![1] = <<9, 0, 8>>],
      Biomes |-> BiomeStream(Above("A"), "DiskEncoding")],
     [SubChunks |-> [NoSubChunks("Nether") EXCEPT ![1] = <<9, 0, 255>>],
      Biomes |-> BiomeStream(Above("A"), "DiskEncoding")],
     [SubChunks |-> [NoSubChunks("Nether") EXCEPT ![1] = <<9, 0, 7>>],
      Biomes |-> BiomeStream(Above("A"), "DiskEncoding")]}

\* The calls of DiskDecode
DiskDecodeCalls ==
    {[fn |-> "DiskDecode", dim |-> "Nether", late |-> FALSE, plan |-> plan,
      data |-> [SubChunks |-> NoSubChunks("Nether"),
                Biomes |-> BiomeStream(plan, "DiskEncoding")],
      whole |-> [SubChunks |-> NoSubChunks("Nether"),
                 Biomes |-> BiomeStream(plan, "DiskEncoding")]] :
        plan \in BiomePlans({"A", "B", "I", "J"})}
    \cup
    UNION {{[fn |-> "DiskDecode", dim |-> "Nether", late |-> FALSE, plan |-> <<>>,
             data |-> d, whole |-> w] : d \in DiskCuts(w)} : w \in DiskWholes}
    \cup
    {[fn |-> "DiskDecode", dim |-> "Nether", late |-> late, plan |-> <<>>,
      data |-> w, whole |-> w] : w \in DiskSlotWholes, late \in BOOLEAN}

\* Whole network chunks of the nether, none with block NBT: the stream, its
\* sub-chunk count and whether its biomes are the legacy 2D array
NetworkWholes ==
    {[data |-> <<8, 1, 3>> \o Words1 \o <<2, 1, 4>>
                  \o BiomeStream(Above("N"), "NetworkEncoding"),
      count |-> 1, oldBiomes |-> FALSE],
     [data |-> <<9, 1, 0, 1, 4>> \o BiomeStream(Above("B"), "NetworkEncoding"),
      count |-> 1, oldBiomes |-> FALSE],
     [data |-> <<1, 1, 4>> \o BiomeStream(Above("A"), "NetworkEncoding"),
      count |-> 1, oldBiomes |-> FALSE],
     [data |-> <<9, 1, 2, 1, 4>> \o OldBiomeBytes, count |-> 1, oldBiomes |-> TRUE],
     [data |-> OldBiomeBytes, count |-> 0, oldBiomes |-> TRUE]}

\* Network chunks whose palette entries are block hashes: 100 and 101 are
\* in the table, 7 is not. In turn: version 9 sub-chunks at their own places;
\* one at place 2, read first; two of the same place; a version 8 sub-chunk
\* of two layers and a version 1 sub-chunk; a layer of size 1 with a
\* palette of two entries
HashedWholes ==
    {[data |-> <<9, 1, 0, 1, 100>> \o <<9, 1, 1, 1, 101>>, count |-> 2],
     [data |-> <<9, 1, 2, 1, 100>>, count |-> 1],
     [data |-> <<9, 1, 0, 1, 100>> \o <<9, 1, 0, 1, 101>>, count |-> 2],
     [data |-> <<8, 2, 1, 100, 1, 7>> \o <<1, 1, 101>>, count |-> 2],
     [data |-> <<8, 1, 3>> \o Words1 \o <<2, 100, 101>>, count |-> 1]}

\* Network chunks of the nether by the slots they name: a version 9
\* sub-chunk with Y 8, one with Y -1, one with Y 7 whose layer is cut off,
\* nine empty version 8 sub-chunks, and eight of them
NetworkSlotWholes ==
    {[data |-> <<9, 1, 8, 1, 100>>, count |-> 1],
     [data |-> <<9, 1, 255, 1, 100>>, count |-> 1],
     [data |-> <<9, 1, 7, 1, 100>>, count |-> 1],
     [data |-> Concat([i \in 1..9 |-> <<8, 0>>]), count |-> 9],
     [data |-> Concat([i \in 1..8 |-> <<8, 0>>]), count |-> 8]}

\* The calls of NetworkDecode
NetworkDecodeCalls ==
    {[fn |-> "NetworkDecode", dim |-> "Nether", late |-> FALSE, plan |-> plan,
      data |-> BiomeStream(plan, "NetworkEncoding"), count |-> 0,
      oldBiomes |-> FALSE, hashedRids |-> FALSE,
      whole |-> BiomeStream(plan, "NetworkEncoding")] :
        plan \in BiomePlans({"A", "N", "B", "I"})}
    \cup
    UNION {{[fn |-> "NetworkDecode", dim |-> "Nether", late |-> late, plan |-> <<>>,
             data |-> d, count |-> w.count, oldBiomes |-> w.oldBiomes,
             hashedRids |-> w.oldBiomes /\ late, whole |-> w.data] :
                d \in Prefixes(w.data), late \in {FALSE, w.oldBiomes}} :
           w \in NetworkWholes}
    \cup
    {[fn |-> "NetworkDecode", dim |-> "Nether", late |-> late, plan |-> <<>>,
      data |-> w.data \o OldBiomeBytes, count |-> w.count, oldBiomes |-> TRUE,
      hashedRids |-> hashedRids, whole |-> w.data \o OldBiomeBytes] :
        w \in HashedWholes \cup NetworkSlotWholes, late \in BOOLEAN,
        hashedRids \in BOOLEAN}

\* Storage headers by size: the sizes of the format, sizes it lacks with 4, 2
\* and 1 indices a word and with none, and the inherit value
StorageSizes == {0, 1, 2, 3, 4, 5, 6, 8, 16} \cup {7, 12, 32, 33, 64, 126} \cup {127}

\* What follows a header of a size: nothing, too few bytes, or the words the
\* size asks for and a palette of one entry in the form of the encoding
StorageBodies(size, low, e, pe) ==
    LET words == Zeros(4 * (IF uint32s(size) < 0 THEN 0 ELSE uint32s(size)))
        entry == IF e = "NetworkEncoding" /\ low = 1 THEN <<5>>
                 ELSE IF pe = "BiomePaletteEncoding" THEN LE32(5)
                 ELSE <<tagCompound, 1>>
        count == IF size = 0 THEN <<>>
                 ELSE IF e = "NetworkEncoding" /\ low = 1 THEN <<1>>
                 ELSE LE32(1)
    IN  {<<>>, <<1, 0, 0>>, words \o count \o entry}

\* The calls of decodePalettedStorage
decodePalettedStorageCalls ==
    UNION {{[fn |-> "decodePalettedStorage", buf |-> <<2 * h[1] + h[2]>> \o body,
             e |-> h[3], pe |-> h[4]] :
                body \in StorageBodies(h[1], h[2], h[3], h[4])} :
           h \in StorageSizes \X {0, 1} \X Encodings
                    \X {"BlockPaletteEncoding", "BiomePaletteEncoding"}}

DecodeCalls ==
    decodeSubChunkCalls \cup DiskDecodeCalls \cup NetworkDecodeCalls
        \cup decodePalettedStorageCalls

InitDecode ==
    /\ ldb = EmptyStore
    /\ op = "call"
    /\ arg \in DecodeCalls
    /\ res = [err |-> "nil"]
    /\ pre = EmptyStore
    /\ failures = 0
    /\ written = NoWritten
    /\ blockRegistry = registry
    /\ db = OpenedDB

decodeSubChunkDone(r) ==
    /\ Returned(ldb, "decodeSubChunk", arg,
                [sub |-> r.sub, err |-> r.err, index |-> r.index, buf |-> r.buf],
                EmptyStore, FALSE)
    /\ UNCHANGED written

decodeSubChunkAct ==
    /\ op = "call"
    /\ arg.fn = "decodeSubChunk"
    /\ decodeSubChunkDone(
           decodeSubChunk(registry, arg.buf, New(0, Range(arg.dim)), arg.index, arg.e))

decodePalettedStorageDone(r) ==
    /\ Returned(ldb, "decodePalettedStorage", arg,
                [storage |-> r.storage, err |-> r.err, buf |-> r.buf], EmptyStore, FALSE)
    /\ UNCHANGED written

decodePalettedStorageAct ==
    /\ op = "call"
    /\ arg.fn = "decodePalettedStorage"
    /\ decodePalettedStorageDone(decodePalettedStorage(registry, arg.buf, arg.e, arg.pe))

DiskDecodeDone(r) ==
    /\ Returned(ldb, "DiskDecode", arg, [chunk |-> r.chunk, err |-> r.err],
                EmptyStore, FALSE)
    /\ UNCHANGED written

DiskDecodeAct ==
    /\ op = "call"
    /\ arg.fn = "DiskDecode"
    /\ DiskDecodeDone(DiskDecode(registry, arg.data, Range(arg.dim), arg.late))

NetworkDecodeDone(r) ==
    /\ Returned(ldb, "NetworkDecode", arg,
                [chunk |-> r.chunk, blockNBTs |-> r.blockNBTs, err |-> r.err],
                EmptyStore, FALSE)
    /\ UNCHANGED written

NetworkDecodeAct ==
    /\ op = "call"
    /\ arg.fn = "NetworkDecode"
    /\ NetworkDecodeDone(NetworkDecode(registry, 0, arg.data, arg.count, arg.oldBiomes,
                                       arg.hashedRids, Range(arg.dim), arg.late))

NextDecode ==
    decodeSubChunkAct \/ decodePalettedStorageAct \/ DiskDecodeAct \/ NetworkDecodeAct

SpecDecode == InitDecode /\ [][NextDecode]_vars

----------------------------------------------------------------------------
(* The claims.                                                              *)

\* The chunk a complete SaveChunk wrote last under the key prefix LoadChunk read
LastSaved == written[index(arg.position, arg.dim)]

\* C1: a LoadChunk whose store reads all succeeded, of a position and
\* dimension whose last SaveChunk wrote all it had to write and was followed
\* by no other write there, returns exists = true, a nil error and a chunk
\* with the sub-chunk layers and biome storages of the chunk saved.
C1_SaveLoadRoundTrip ==
    (/\ op = "LoadChunk"
     /\ ~res.faulted
     /\ index(arg.position, arg.dim) \in DOMAIN written
     /\ LastSaved.dim = arg.dim)
    => /\ res.exists
       /\ res.err = "nil"
       /\ res.c.sub = LastSaved.c.sub
       /\ res.c.biomes = LastSaved.c.biomes

\* An overworld chunk with layers in its lowest and highest sub-chunk was
\* saved and loaded back
C1_Witness ==
    /\ op = "LoadChunk"
    /\ ~res.faulted
    /\ arg.dim = "Overworld"
    /\ index(arg.position, arg.dim) \in DOMAIN written
    /\ LastSaved = [c |-> ChunkB(Range("Overworld")), dim |-> "Overworld"]
    /\ res.err = "nil"
    /\ res.c.sub[24] = [storages |-> <<TwoBlocks(0, 3), emptyStorage(2)>>]

HasVersion == (index(arg.position, arg.dim) \o <<keyVersion>>) \in DOMAIN ldb
HasVersionOld == (index(arg.position, arg.dim) \o <<keyVersionOld>>) \in DOMAIN ldb

\* C2: LoadChunk returns exists = false only with a nil chunk and a nil
\* error and only when neither version key is present; with neither present
\* and its reads succeeding it returns exists = false; with only the legacy
\* key present and its reads succeeding it returns exists = true; and every
\* non-nil error comes with exists = true.
C2_AbsentIffNoVersionKey ==
    op = "LoadChunk" =>
        /\ ~res.exists =>
               res.c = NilChunk /\ res.err = "nil" /\ ~HasVersion /\ ~HasVersionOld
        /\ (~res.faulted /\ ~HasVersion /\ ~HasVersionOld) => ~res.exists
        /\ (~res.faulted /\ ~HasVersion /\ HasVersionOld) => res.exists
        /\ res.err # "nil" => res.exists

\* C3: SaveChunk returns a nil error exactly when none of its store writes
\* failed.
C3_SaveChunkReportsFailedWrite ==
    op = "SaveChunk" => (res.err = "nil" <=> ~res.faulted)

\* C4: a LoadChunk, LoadEntities, LoadBlockNBT or LoadPlayerData one of whose
\* store reads failed with an error other than not-found returns a non-nil
\* error.
C4_ReadFailureReturned ==
    (op \in {"LoadChunk", "LoadEntities", "LoadBlockNBT", "LoadPlayerData"}
     /\ res.faulted)
    => res.err # "nil"

DigpKey == strDigp \o index(arg.position, arg.dim)
EntityKey == index(arg.position, arg.dim) \o <<keyEntities>>

\* C5: after a SaveEntities that returned nil the digp key of the chunk is
\* absent exactly when the call saved no UID.
C5_DigpAbsentIffNoneSaved ==
    (op = "SaveEntities" /\ res.err = "nil")
    => ((DigpKey \notin DOMAIN ldb) <=> (res.uniqueIDs = <<>>))

\* The NBT of the saveable entities of the call, in the order of the argument
SavedNBT ==
    LET e == SelectSeq(arg.entities, LAMBDA x : x.type \in SaveableTypes)
    IN  [i \in 1..Len(e) |-> SetField(e[i].nbt, "identifier", e[i].type)]

\* The bytes of the digp value (none when the key is absent)
DigpBytes == IF DigpKey \in DOMAIN ldb THEN ldb[DigpKey].b ELSE <<>>

\* C6: after a SaveEntities that returned nil, with P the UIDs the digp value
\* listed before and U the UIDs saved: U has one UID per saveable entity, in
\* order, the entity's own UniqueID when it has one; the actorprefix record of
\* each holds the entity's NBT; no UID of P outside U has a record; and the
\* digp value is the 8-byte little-endian UIDs of U in order.
C6_ActorRecordsFollowSave ==
    (op = "SaveEntities" /\ res.err = "nil")
    => /\ Len(res.uniqueIDs) = Len(SavedNBT)
       /\ \A i \in 1..Len(SavedNBT) :
              /\ "UniqueID" \in DOMAIN SavedNBT[i]
                     => res.uniqueIDs[i] = SavedNBT[i].UniqueID
              /\ actorIndex(res.uniqueIDs[i]) \in DOMAIN ldb
              /\ ldb[actorIndex(res.uniqueIDs[i])] = NBT(<<SavedNBT[i]>>)
       /\ \A j \in 1..Len(res.previous) :
              ~Contains(res.uniqueIDs, res.previous[j])
                  => actorIndex(res.previous[j]) \notin DOMAIN ldb
       /\ Len(DigpBytes) = 8 * Len(res.uniqueIDs)
       /\ \A i \in 1..Len(res.uniqueIDs) :
              SubSeq(DigpBytes, 8 * i - 7, 8 * i) = LE64(res.uniqueIDs[i])

\* C7: after a SaveEntities that returned nil the legacy inline entity key of
\* the chunk is absent.
C7_InlineKeyAbsentAfterSave ==
    (op = "SaveEntities" /\ res.err = "nil") => EntityKey \notin DOMAIN ldb

\* Whether an item of entity NBT decodes to an entity
Decodable(m) ==
    /\ "identifier" \in DOMAIN m
    /\ m.identifier \in RegisteredTypes \cap SaveableTypes

\* The number of decodable entities the store holds for the chunk: in its
\* inline stream and in the records of the UIDs its digp lists
DecodableCount ==
    LET inline == IF EntityKey \in DOMAIN ldb THEN Items(ldb[EntityKey]) ELSE <<>>
        uids == UIDsListed(ldb, arg.position, arg.dim)
    IN  Cardinality({i \in 1..Len(inline) : Decodable(inline[i])})
        + Cardinality({j \in 1..Len(uids) :
              /\ actorIndex(uids[j]) \in DOMAIN ldb
              /\ DecodesCompound(ldb[actorIndex(uids[j])])
              /\ Decodable(Head(Items(ldb[actorIndex(uids[j])])))})

\* C8: a LoadEntities whose store reads all succeeded returns a nil error and
\* as many entities as the chunk has decodable ones, whatever undecodable
\* records it has besides.
C8_UndecodableEntitySkipped ==
    (op = "LoadEntities" /\ ~res.faulted)
    => res.err = "nil" /\ Len(res.a) = DecodableCount

\* A position whose coordinates fit 32 bits
Is32(pos) == \A i \in 1..3 : pos[i].w = 0

\* Whether LoadPlayerData finds a valid record of the player in the store
ValidRecord(s, id) ==
    LoadPlayerData(s, id, 1, 0).exists /\ LoadPlayerData(s, id, 1, 0).err = "nil"

\* C9: with no store operation failing, SavePlayerSpawnPosition of a player
\* without a record or with a valid one returns nil; a LoadPlayerSpawnPosition
\* that follows a SavePlayerSpawnPosition of a 32-bit position returns that
\* position, true and nil; and LoadPlayerSpawnPosition of a player without a
\* record returns exists = false and nil.
C9_SpawnRoundTrip ==
    /\ (/\ op = "SavePlayerSpawnPosition"
        /\ ~res.faulted
        /\ (playerKey(arg.id) \notin DOMAIN pre \/ ValidRecord(pre, arg.id)))
       => res.err = "nil"
    /\ (/\ op = "LoadPlayerSpawnPosition"
        /\ ~res.faulted
        /\ playerKey(arg.id) \in DOMAIN written
        /\ Is32(written[playerKey(arg.id)].pos))
       => /\ res.pos = written[playerKey(arg.id)].pos
          /\ res.exists
          /\ res.err = "nil"
    /\ (/\ op = "LoadPlayerSpawnPosition"
        /\ ~res.faulted
        /\ playerKey(arg.id) \notin DOMAIN ldb)
       => ~res.exists /\ res.err = "nil"

\* The spawn position of a player that had a valid record with other server
\* data was saved and loaded back
C9_Witness ==
    /\ op = "LoadPlayerSpawnPosition"
    /\ ~res.faulted
    /\ arg.id = uuid(50)
    /\ playerKey(arg.id) \in DOMAIN written
    /\ res.pos = <<GoInt(0, 10), GoInt(0, 64), GoInt(0, -5)>>
    /\ res.pos = written[playerKey(arg.id)].pos
    /\ res.err = "nil"

\* Whether the call left the key as it was
Kept(k) ==
    /\ k \in DOMAIN pre <=> k \in DOMAIN ldb
    /\ k \in DOMAIN pre => pre[k] = ldb[k]

\* The server-data key of the player of the call: the one its reference
\* record named before the call, or the one the call gives a new player
ServerDataKey ==
    IF playerKey(arg.id) \in DOMAIN pre /\ DecodesCompound(pre[playerKey(arg.id)])
    THEN unmarshalPlayerData(Head(Items(pre[playerKey(arg.id)]))).ServerID
    ELSE playerServerKey(arg.id)

\* C10 as stated: SavePlayerSpawnPosition leaves every key other than the
\* server-data key of the player as it was.
C10_OnlyServerDataChanged ==
    op = "SavePlayerSpawnPosition"
    => \A k \in DOMAIN pre \cup DOMAIN ldb : k # ServerDataKey => Kept(k)

\* C10: SavePlayerSpawnPosition leaves every key as it was other than the
\* server-data key of the player and, when the player had no reference record,
\* the reference record; a reference record that was there is left as it was.
C10_OnlyServerDataAndNewRecordChanged ==
    op = "SavePlayerSpawnPosition"
    => \A k \in DOMAIN pre \cup DOMAIN ldb :
           (k # ServerDataKey /\ (k # playerKey(arg.id) \/ k \in DOMAIN pre))
               => Kept(k)

\* The call created the reference record of a player that had none, and wrote
\* the server data
C10_Witness ==
    /\ op = "SavePlayerSpawnPosition"
    /\ res.err = "nil"
    /\ playerKey(arg.id) \notin DOMAIN pre
    /\ playerKey(arg.id) \in DOMAIN ldb
    /\ playerKey(uuid(50)) \in DOMAIN pre
    /\ ServerDataKey \in DOMAIN ldb


\* The reference record of player id in store s is one LoadPlayerData has to
\* refuse: its UUID is not id, or its server ID is empty or missing
RefusedRecord(s, id) ==
    /\ playerKey(id) \in DOMAIN s
    /\ DecodesCompound(s[playerKey(id)])
    /\ LET m == Head(Items(s[playerKey(id)]))
       IN  \/ "MsaId" \notin DOMAIN m
           \/ m.MsaId # id
           \/ "ServerId" \notin DOMAIN m
           \/ m.ServerId = <<>>

\* C11: LoadPlayerData of a player whose reference record names another UUID
\* or has an empty or no server ID returns a non-nil error, exists = true and
\* no server data, and issues no store read after that of the reference record.
C11_InvalidRecordRefused ==
    (op = "LoadPlayerData" /\ RefusedRecord(ldb, arg.id))
    => /\ res.err # "nil"
       /\ res.exists
       /\ res.serverData = NilMap
       /\ res.ops = 1

\* The record of a player that names another UUID and points at stored server
\* data was read without a failure and refused
C11_Witness ==
    /\ op = "LoadPlayerData"
    /\ RefusedRecord(ldb, arg.id)
    /\ ~res.faulted
    /\ "ServerId" \in DOMAIN Head(Items(ldb[playerKey(arg.id)]))
    /\ Head(Items(ldb[playerKey(arg.id)])).ServerId \in DOMAIN ldb
    /\ res.err = "invalid player data"


\* The int32 whose little-endian bytes are b[i+1..i+4]
Int32At(b, i) ==
    b[i + 1] + 256 * b[i + 2] + 65536 * b[i + 3]
        + 16777216 * (IF b[i + 4] >= 128 THEN b[i + 4] - 256 ELSE b[i + 4])

\* The dimension IDs the keys are built from: a dimension that is not
\* registered has the zero ID
KeyDimensionID(d) ==
    CASE d = "Overworld" -> 0 [] d = "Nether" -> 1 [] d = "End" -> 2
      [] d = "Overworld_legacy" -> 0 [] OTHER -> 0

RECURSIVE Layers(_, _, _)
Layers(buf, n, e) ==
    IF n = 0 THEN [storages |-> <<>>, err |-> "nil", buf |-> buf]
    ELSE IF n = 1
    THEN LET d == decodePalettedStorage(registry, buf, e, "BlockPaletteEncoding")
         IN  IF d.err # "nil" THEN [storages |-> <<>>, err |-> d.err, buf |-> d.buf]
             ELSE [storages |-> <<d.storage>>, err |-> "nil", buf |-> d.buf]
    ELSE LET first == Layers(buf, n \div 2, e)
             last == Layers(first.buf, n - (n \div 2), e)
         IN  IF first.err # "nil" THEN first
             ELSE [storages |-> first.storages \o last.storages, err |-> last.err,
                   buf |-> last.buf]

\* What decodeSubChunk returned is the layers read from the stream after a
\* header of h bytes, n of them, with the slot index idx; an error and no
\* sub-chunk if a layer fails
ReadLayers(h, n, idx) ==
    LET l == Layers(Drop(arg.buf, h), n, arg.e)
    IN  IF l.err # "nil" THEN res.err # "nil" /\ res.sub = NilSubChunk
        ELSE /\ res.err = "nil"
             /\ res.sub = [storages |-> l.storages]
             /\ Len(res.sub.storages) = n
             /\ res.buf = l.buf
             /\ res.index = idx

\* C13: decodeSubChunk returns an error and no sub-chunk for a version byte
\* other than 1, 8 and 9; for version 1 it reads one layer right after the
\* version byte; for version 8 a count byte and then that many layers, the
\* slot index left as it was; for version 9 a count byte, a Y byte that sets
\* the slot index, and then that many layers.
C13_SubChunkVersions ==
    (op = "decodeSubChunk" /\ arg.buf # <<>>) =>
        LET b == arg.buf
        IN  /\ b[1] \notin {1, 8, 9} => res.err # "nil" /\ res.sub = NilSubChunk
            /\ b[1] = 1 => ReadLayers(1, 1, arg.index)
            /\ (b[1] = 8 /\ Len(b) >= 2) => ReadLayers(2, b[2], arg.index)
            /\ (b[1] = 9 /\ Len(b) >= 3) =>
                   ReadLayers(3, b[2],
                       uint8(int8(b[3]) - int8(Shr4(Range(arg.dim)[1]))))

\* A version 9 sub-chunk of two layers at Y -4 of the overworld was decoded
\* into slot 0
C13_Witness ==
    /\ op = "decodeSubChunk"
    /\ arg.buf = <<9, 2, 252, 0, tagCompound, 2, 0, tagCompound, 3>>
    /\ arg.dim = "Overworld"
    /\ arg.index = 3
    /\ res.err = "nil"
    /\ res.index = 0
    /\ res.sub = [storages |-> <<emptyStorage(1), emptyStorage(2)>>]
    /\ res.buf = <<>>


\* The call crashed
Panicked == Len(res.err) >= 6 /\ SubSeq(res.err, 1, 6) = "panic:"

\* The storage an item of a biome plan stands for
PlannedStorage(item) ==
    CASE item = "A" -> emptyStorage(1)
      [] item = "N" -> emptyStorage(4)
      [] item = "B" -> TwoBlocks(1, 4)

\* C14: of the biome storages of a chunk decoded from the disk or the
\* network form, the one at a sub-chunk whose header inherits equals the one
\* of the sub-chunk below, and so the storage decoded last; a stream whose
\* first header inherits gives an error and no chunk.
C14_BiomeInherit ==
    (op \in {"DiskDecode", "NetworkDecode"} /\ arg.plan # <<>>) =>
        IF arg.plan[1] \in {"I", "J"}
        THEN res.err \notin {"nil"} /\ ~Panicked /\ res.chunk = NilChunk
        ELSE /\ res.err = "nil"
             /\ \A i \in DOMAIN arg.plan :
                    res.chunk.biomes[i] =
                        IF arg.plan[i] \in {"I", "J"} THEN res.chunk.biomes[i - 1]
                        ELSE PlannedStorage(arg.plan[i])

\* A network chunk whose biomes change after a sub-chunk that inherits, and
\* inherit from there on
C14_Witness ==
    /\ op = "NetworkDecode"
    /\ Len(arg.plan) = 8
    /\ SubSeq(arg.plan, 1, 4) = <<"N", "I", "B", "I">>
    /\ res.err = "nil"
    /\ res.chunk.biomes[2] = emptyStorage(4)
    /\ res.chunk.biomes[8] = TwoBlocks(1, 4)


\* The input of the call is a whole chunk cut short
Truncated ==
    CASE op = "NetworkDecode" -> Len(arg.data) < Len(arg.whole)
      [] op = "DiskDecode" -> arg.data # arg.whole
      [] OTHER -> FALSE

\* C15: a chunk whose input ends early - at a sub-chunk header byte, within
\* packed words or a palette, within a biome storage, or within the 256 bytes
\* of the legacy 2D biomes with 0 to 255 of them left - is refused:
\* NetworkDecode returns a nil chunk, nil block NBT and an error, DiskDecode
\* a nil chunk and an error.
C15_TruncatedInputRefused ==
    (op \in {"DiskDecode", "NetworkDecode"} /\ Truncated) =>
        /\ res.err \notin {"nil"}
        /\ ~Panicked
        /\ res.chunk = NilChunk
        /\ op = "NetworkDecode" => res.blockNBTs = <<>>


\* The sizes a storage may have
PaletteSizes == {0, 1, 2, 3, 4, 5, 6, 8, 16}

\* C16: decodePalettedStorage, given a header whose size (the header byte
\* shifted right by one) is neither a size of the format nor the inherit
\* value 0x7F, returns an error and does not crash.
C16_InvalidSizeRefused ==
    (op = "decodePalettedStorage"
        /\ Head(arg.buf) \div 2 \notin PaletteSizes \cup {127}) =>
            res.err \notin {"nil"} /\ ~Panicked


\* C17: hashProperties gives the same string for two property maps of the
\* same keys and values, in whatever order the keys of either are ranged over.
C17_HashOrderIndependent ==
    (op = "hashProperties" /\ arg.p = arg.q) => res.p = res.q

\* A map of two keys whose values differ, ranged over in both orders
C17_Witness ==
    /\ op = "hashProperties"
    /\ arg.p = arg.q
    /\ arg.pKeys = <<"age", "color">>
    /\ arg.qKeys = <<"color", "age">>
    /\ arg.p["age"] = PString(<<97>>)
    /\ arg.p["color"] = PInt32(1)
    /\ res.p = <<97, 1, 0, 0, 0>>
    /\ res.q = res.p

\* C18: the hashes of two property maps with values of type bool, uint8,
\* int32 or string are equal if and only if the maps have the same keys and
\* equal values at every key.
C18_HashEqualIffMapsEqual ==
    op = "hashProperties" => (res.p = res.q <=> arg.p = arg.q)


\* The state hash of a state, and whether its properties hash at all
HashOf(st) == stateHash(st.name, st.properties)
Hashes(st) == hashProperties(st.properties) # <<-1>>

\* The block list, the state map and the default property table
Tables(reg) == <<reg.blocks, reg.stateRuntimeIDs, reg.blockProperties>>

\* C19: registering a state whose name and property hash are registered
\* already panics, in registerBlockState and in a batch, two states of the
\* batch with the same name and hash included; a state with a property value
\* of another type than bool, uint8, int32 and string panics; and a
\* registerBlockState that panics leaves the block list, the state map and
\* the default property table as they were.
C19_DuplicateRegistrationPanics ==
    /\ (op = "registerBlockState"
            /\ (~Hashes(arg.s) \/ HashOf(arg.s) \in DOMAIN pre.stateRuntimeIDs)) =>
                res.panicked
    /\ (op = "registerBlockStates"
            /\ \E i \in DOMAIN arg.ss :
                  \/ ~Hashes(arg.ss[i])
                  \/ HashOf(arg.ss[i]) \in DOMAIN pre.stateRuntimeIDs
                  \/ \E j \in DOMAIN arg.ss : j # i /\ HashOf(arg.ss[j]) = HashOf(arg.ss[i])) =>
                res.panicked
    /\ (op = "registerBlockState" /\ res.panicked) =>
            Tables(blockRegistry) = Tables(pre)

\* A state registered a second time after another one, refused with the
\* registry of two states left as it was
C19_Witness ==
    /\ op = "registerBlockState"
    /\ Len(pre.blocks) = 2
    /\ pre.blocks[1] = arg.s
    /\ Hashes(arg.s)
    /\ res.panicked
    /\ Tables(blockRegistry) = Tables(pre)

\* C20: while no registration has panicked, the runtime IDs of the state map
\* are exactly 0..len(blocks)-1, no two state hashes share one, every
\* registered state looks up to a runtime ID that looks up to that state, and
\* RuntimeIDToState finds nothing exactly from len(blocks) on.
C20_RuntimeIDsDense ==
    ~blockRegistry.panicked =>
        LET n == Len(blockRegistry.blocks)
            ids == blockRegistry.stateRuntimeIDs
        IN  /\ {ids[h] : h \in DOMAIN ids} = 0..(n - 1)
            /\ \A h1, h2 \in DOMAIN ids : ids[h1] = ids[h2] => h1 = h2
            /\ \A i \in 1..n :
                  LET st == blockRegistry.blocks[i]
                      r == chunkStateToRuntimeID(blockRegistry, st.name, st.properties)
                  IN  /\ r.found
                      /\ RuntimeIDToState(blockRegistry, r.rid) =
                            [name |-> st.name, properties |-> st.properties, found |-> TRUE]
            /\ \A r \in 0..(n + 2) :
                  ~RuntimeIDToState(blockRegistry, r).found <=> r >= n

\* Three states registered, one of them by a batch
C20_Witness ==
    /\ op = "registerBlockStates"
    /\ ~blockRegistry.panicked
    /\ Len(blockRegistry.blocks) = 3
    /\ Len(pre.blocks) = 1
    /\ chunkStateToRuntimeID(blockRegistry, arg.ss[2].name, arg.ss[2].properties) =
            [rid |-> 2, found |-> TRUE]

\* The places in the block list of the states of a name
PlacesOf(reg, name) == {i \in DOMAIN reg.blocks : reg.blocks[i].name = name}

\* The runtime ID of the first state of a name in the block list
FirstOf(reg, name) ==
    (CHOOSE i \in PlacesOf(reg, name) : \A j \in PlacesOf(reg, name) : i <= j) - 1

\* C21: StateToRuntimeID of a name that has a registered state, with
\* properties that are those of no registered state of the name, finds the
\* runtime ID of the first state registered under the name; of a name with no
\* registered state it finds nothing, whatever the properties.
C21_UnknownPropertiesGiveDefault ==
    op = "StateToRuntimeID" =>
        IF PlacesOf(pre, arg.s.name) = {}
        THEN ~res.found
        ELSE (\A i \in PlacesOf(pre, arg.s.name) : pre.blocks[i] # arg.s) =>
                res = [rid |-> FirstOf(pre, arg.s.name), found |-> TRUE]

\* The same, for properties whose hash is that of no registered state of the
\* name
C21_UnhashedPropertiesGiveDefault ==
    op = "StateToRuntimeID" =>
        IF PlacesOf(pre, arg.s.name) = {}
        THEN ~res.found
        ELSE (\A i \in PlacesOf(pre, arg.s.name) : HashOf(pre.blocks[i]) # HashOf(arg.s)) =>
                res = [rid |-> FirstOf(pre, arg.s.name), found |-> TRUE]


\* The entries of a call that are outside the minecraft namespace
CustomEntries(entries) ==
    {entries[i] : i \in {j \in DOMAIN entries : splitNamespace(entries[j].name) # "minecraft"}}

\* The enabled states of the traits of an entry, as pairs <<k, enabled>>
EnabledStates(entry) ==
    {p \in UNION {{entry.traits[i][j] : j \in DOMAIN entry.traits[i]} :
                      i \in DOMAIN entry.traits} : p[2] # 0}

\* The value lists of an entry by property name: the declared ones and those
\* of the enabled traits
ValueLists(entry) ==
    {<<entry.properties[i].name, entry.properties[i].enum>> : i \in DOMAIN entry.properties}
        \cup {<<"minecraft:" \o p[1], traitLookup[p[1]]>> :
                 p \in {q \in EnabledStates(entry) : q[1] \in DOMAIN traitLookup}}

\* The states of the Cartesian product of the value lists of an entry
ProductStates(entry) ==
    LET names == {l[1] : l \in ValueLists(entry)}
        values == UNION {{l[2][i] : i \in DOMAIN l[2]} : l \in ValueLists(entry)}
    IN  {BlockState(entry.name, f) :
            f \in {g \in [names -> values] :
                      \A l \in ValueLists(entry) :
                          \E i \in DOMAIN l[2] : g[l[1]] = l[2][i]}}

\* The product of the sizes of the value lists of every entry of a set
RECURSIVE ProductSize(_)
ProductSize(lists) ==
    IF lists = {} THEN 1
    ELSE LET l == CHOOSE x \in lists : TRUE
         IN  Len(l[2]) * ProductSize(lists \ {l})

RECURSIVE ProductSizes(_)
ProductSizes(es) ==
    IF es = {} THEN 0
    ELSE LET e == CHOOSE x \in es : TRUE
         IN  ProductSize(ValueLists(e)) + ProductSizes(es \ {e})

\* The states of a block list
StatesOf(reg) == {reg.blocks[i] : i \in DOMAIN reg.blocks}

\* What C22 asks of an InsertCustomBlocks call
CustomBlocksRegistered ==
    IF \E e \in CustomEntries(arg.entries) :
          \E p \in EnabledStates(e) : p[1] \notin DOMAIN traitLookup
    THEN res.panicked
    ELSE /\ ~res.panicked
         /\ Len(blockRegistry.blocks) =
                Len(pre.blocks) + ProductSizes(CustomEntries(arg.entries))
         /\ StatesOf(blockRegistry) \ StatesOf(pre) =
                UNION {ProductStates(e) : e \in CustomEntries(arg.entries)}
         /\ StatesOf(pre) \subseteq StatesOf(blockRegistry)
         /\ \A i, j \in DOMAIN blockRegistry.blocks :
                i # j => blockRegistry.blocks[i] # blockRegistry.blocks[j]

\* The states of the products of a call
CallStates == UNION {ProductStates(e) : e \in CustomEntries(arg.entries)}

\* C22: InsertCustomBlocks, called with entries none of whose states is
\* registered, registers for each entry outside the minecraft namespace
\* exactly one new state for each element of the Cartesian product of the
\* declared value lists and the value lists of the enabled traits, all
\* different, so that the registry grows by the product of the list sizes;
\* minecraft entries and traits with enabled 0 add nothing; an enabled trait
\* that traitLookup does not have panics.
C22_CustomBlocksRegistered ==
    (op = "InsertCustomBlocks" /\ CallStates \cap StatesOf(pre) = {}) =>
        CustomBlocksRegistered

\* The same for calls in which no two states of the products, and no state
\* of them and registered state, have the same state hash
C22_UncollidingCustomBlocksRegistered ==
    (/\ op = "InsertCustomBlocks"
     /\ \A s \in CallStates :
           \A t \in CallStates \cup StatesOf(pre) : HashOf(s) = HashOf(t) => s = t
     /\ CallStates \cap StatesOf(pre) = {}) =>
        CustomBlocksRegistered

\* Two colours and facing_direction: twelve states more
C22_TwelveStates ==
    /\ op = "InsertCustomBlocks"
    /\ Len(arg.entries) = 1
    /\ arg.entries[1].name = "custom:block"
    /\ Len(blockRegistry.blocks) = Len(pre.blocks) + 12
    /\ Len(pre.blocks) = 2
    /\ ~res.panicked


\* The states a call inserts: the products of the entries, or the batch
Inserted ==
    IF op = "InsertCustomBlocks" THEN CallStates
    ELSE {arg.ss[i] : i \in DOMAIN arg.ss}

\* C23: after a custom block insertion that returned (InsertCustomBlocks with
\* its re-finalisation, or the batch registration of part_003), the state map
\* is a bijection between the registered states and 0..len(blocks)-1: the
\* state of blocks[i] looks up to i, every state registered before is
\* registered, and so is every inserted state.
C23_InsertionKeepsBijection ==
    (op \in {"InsertCustomBlocks", "registerBlockStates"} /\ ~res.panicked) =>
        LET n == Len(blockRegistry.blocks)
            ids == blockRegistry.stateRuntimeIDs
        IN  /\ \A i \in 1..n :
                  chunkStateToRuntimeID(blockRegistry, blockRegistry.blocks[i].name,
                                        blockRegistry.blocks[i].properties) =
                      [rid |-> i - 1, found |-> TRUE]
            /\ {ids[h] : h \in DOMAIN ids} = 0..(n - 1)
            /\ \A h1, h2 \in DOMAIN ids : ids[h1] = ids[h2] => h1 = h2
            /\ StatesOf(pre) \subseteq StatesOf(blockRegistry)
            /\ Inserted \subseteq StatesOf(blockRegistry)

\* Twelve custom states inserted before a registered air state, which moves
\* from runtime ID 0 to 12
C23_Witness ==
    /\ op = "InsertCustomBlocks"
    /\ ~res.panicked
    /\ Len(pre.blocks) = 1
    /\ pre.blocks[1].name = "minecraft:air"
    /\ Len(blockRegistry.blocks) = 13
    /\ blockRegistry.blocks[13] = pre.blocks[1]
    /\ chunkStateToRuntimeID(pre, "minecraft:air", pre.blocks[1].properties).rid = 0
    /\ chunkStateToRuntimeID(blockRegistry, "minecraft:air", pre.blocks[1].properties).rid = 12

\* A batch of two states inserted after a registered one
C23_BatchWitness ==
    /\ op = "registerBlockStates"
    /\ ~res.panicked
    /\ Len(pre.blocks) = 1
    /\ Len(blockRegistry.blocks) = 3
    /\ Inserted \subseteq StatesOf(blockRegistry)


\* The arrays indexed by runtime ID, each with the value a new entry gets
Arrays(reg) ==
    <<<<reg.nbtBlocks, FALSE>>, <<reg.randomTickBlocks, FALSE>>,
      <<reg.liquidBlocks, FALSE>>, <<reg.liquidDisplacingBlocks, FALSE>>,
      <<reg.FilteringBlocks, 15>>, <<reg.LightBlocks, 0>>>>

\* C24: in the build of part_003, while no registration has panicked, each
\* array indexed by runtime ID is as long as the block list, the entry
\* inserted for a state sits at the runtime ID the state has now, every entry
\* of a state registered before the last call has the value it had, and every
\* runtime ID in WaterBlocks is that of a minecraft:water state.
C24_ArraysFollowRuntimeIDs ==
    (blockRegistry.build = "part_003" /\ ~blockRegistry.panicked) =>
        LET n == Len(blockRegistry.blocks)
        IN  /\ \A a \in 1..6 :
                  /\ Len(Arrays(blockRegistry)[a][1]) = n
                  /\ \A i \in 1..n :
                        Arrays(blockRegistry)[a][1][i].of = HashOf(blockRegistry.blocks[i])
                  /\ \A i \in 1..Len(pre.blocks) :
                        \A j \in 1..n :
                            blockRegistry.blocks[j] = pre.blocks[i] =>
                                Arrays(blockRegistry)[a][1][j] = Arrays(pre)[a][1][i]
            /\ \A w \in DOMAIN blockRegistry.WaterBlocks :
                  /\ blockRegistry.WaterBlocks[w] < n
                  /\ blockRegistry.blocks[blockRegistry.WaterBlocks[w] + 1].name =
                        "minecraft:water"

\* A water state registered after another state, then a batch of two
C24_Witness ==
    /\ blockRegistry.build = "part_003"
    /\ op = "registerBlockStates"
    /\ ~blockRegistry.panicked
    /\ Len(pre.blocks) = 1
    /\ pre.WaterBlocks = <<0>>
    /\ Len(blockRegistry.blocks) = 3
    /\ Len(blockRegistry.LightBlocks) = 3
    /\ blockRegistry.WaterBlocks = <<0>>


\* C25: a Close none of whose calls is made to fail, on a provider that has
\* been closed, returns no error and leaves the store closed and level.dat
\* and levelname.txt as they were after the first Close.
C25_CloseIdempotent ==
    (op = "Close" /\ pre.closed /\ arg.step = "none") =>
        /\ res.err = "nil"
        /\ db.closed = pre.closed
        /\ db.dir = pre.dir

\* What does hold of such a Close: the store stays closed, both files are
\* written again, level.dat with the time of this Close, and the error of
\* closing a closed store is returned
C25_SecondCloseRewrites ==
    (op = "Close" /\ pre.closed /\ arg.step = "none") =>
        /\ res.err = "leveldb: closed"
        /\ db.closed
        /\ db.dir["levelname.txt"] = pre.ldat.LevelName
        /\ db.dir["level.dat"] = marshal([pre.ldat EXCEPT !.LastPlayed = arg.now])

\* C26: in every Close, the store is closed only after level.dat, with the
\* new LastPlayed, and levelname.txt have been written, and whenever Close
\* returns the store has been closed.
C26_StoreClosedLast ==
    op = "Close" =>
        /\ (\E i \in DOMAIN res.calls : res.calls[i] = "ldb.Close") =>
              /\ res.calls = <<"level.dat", "levelname.txt", "ldb.Close">>
              /\ db.dir["level.dat"] = marshal([pre.ldat EXCEPT !.LastPlayed = arg.now])
              /\ db.dir["levelname.txt"] = pre.ldat.LevelName
        /\ db.closed

\* The same, with the store closed whenever Close gets as far as closing it
C26_StoreClosedLastIfReached ==
    op = "Close" =>
        /\ (\E i \in DOMAIN res.calls : res.calls[i] = "ldb.Close") =>
              /\ res.calls = <<"level.dat", "levelname.txt", "ldb.Close">>
              /\ db.dir["level.dat"] = marshal([pre.ldat EXCEPT !.LastPlayed = arg.now])
              /\ db.dir["levelname.txt"] = pre.ldat.LevelName
        /\ (arg.step \in {"none", "ldb.Close"}) => db.closed
        /\ res.err = "nil" => db.closed


\* C27: a LoadChunk whose reads succeed, of a chunk whose SaveChunk the
\* program ended in between two store writes when the store had no key of
\* the chunk, reports exists = false or returns the chunk that was being
\* saved, complete.
C27_InterruptedSaveNotPartial ==
    (/\ op = "LoadChunk"
     /\ ~res.faulted
     /\ index(arg.position, arg.dim) \in DOMAIN written
     /\ LastSaved.dim = arg.dim
     /\ LastSaved.absent)
    => \/ ~res.exists
       \/ /\ res.err = "nil"
          /\ res.c.sub = LastSaved.c.sub
          /\ res.c.biomes = LastSaved.c.biomes


\* C28: after the custom block insertion of part_003 the block list is in
\* the order of the names that sort_blocks takes (the fnv sums of the names):
\* no block comes after a block of a greater name, and the blocks that were
\* in the list before are in the order they had.
C28_BlocksOrderedByName ==
    (op = "registerBlockStates" /\ ~res.panicked) =>
        /\ \A i, j \in DOMAIN blockRegistry.blocks :
              i < j => Sum64(blockRegistry.blocks[i].name) <= Sum64(blockRegistry.blocks[j].name)
        /\ \A i, j \in DOMAIN pre.blocks :
              (i < j /\ pre.blocks[i].name = pre.blocks[j].name) =>
                  \E k, l \in DOMAIN blockRegistry.blocks :
                      /\ k < l
                      /\ blockRegistry.blocks[k] = pre.blocks[i]
                      /\ blockRegistry.blocks[l] = pre.blocks[j]

\* What no order of the names allows: a block of another name between two
\* blocks of one name
C28_NamesTogether ==
    (op = "registerBlockStates" /\ ~res.panicked) =>
        \A i, j, k \in DOMAIN blockRegistry.blocks :
            (i < j /\ j < k /\ blockRegistry.blocks[i].name = blockRegistry.blocks[k].name) =>
                blockRegistry.blocks[j].name = blockRegistry.blocks[i].name

\* The part that holds: the list before the insertion is the start of the
\* list after it, and the batch follows in its order
C28_BatchAppended ==
    (op = "registerBlockStates" /\ ~res.panicked) =>
        blockRegistry.blocks = pre.blocks \o arg.ss


----------------------------------------------------------------------------
(* Hashed runtime IDs in NetworkDecode                                       *)

\* The sub-chunks of a network stream in the order they are read, each as
\* decodeSubChunk alone returns it; none from the first that fails on
RECURSIVE DecodedSubs(_, _, _, _)
DecodedSubs(buf, i, count, r) ==
    IF i >= count THEN {}
    ELSE LET d == decodeSubChunk(registry, buf, New(0, r), uint8(i), "NetworkEncoding")
         IN  IF d.err # "nil" THEN {}
             ELSE {d.sub} \cup DecodedSubs(d.buf, i + 1, count, r)

\* The runtime ID the table gives for hash h
TableRID(h) == IF h \in DOMAIN ridHashLookup THEN ridHashLookup[h] ELSE 0

\* A sub-chunk with every palette entry replaced once by the table's runtime ID
Translated(sub) ==
    [storages |->
        [k \in DOMAIN sub.storages |->
            PalettedStorage(sub.storages[k].bitsPerIndex, sub.storages[k].indices,
                [j \in DOMAIN sub.storages[k].palette |->
                    TableRID(sub.storages[k].palette[j])])]]

\* The sub-chunks NetworkDecode put into the chunk it returned
PlacedSubs == {res.chunk.sub[k] : k \in DOMAIN res.chunk.sub} \ {NewSubChunk}

\* A call of NetworkDecode on a stream of hashed palettes has returned a chunk
HashedReturned ==
    /\ op = "NetworkDecode"
    /\ res.err = "nil"
    /\ \E w \in HashedWholes : arg.data = w.data \o OldBiomeBytes

C30_HashedWhenIndexReadLate ==
    (HashedReturned /\ arg.late) =>
        LET subs == DecodedSubs(arg.data, 0, arg.count, Range(arg.dim))
        IN  /\ PlacedSubs # {}
            /\ arg.hashedRids => PlacedSubs \subseteq {Translated(sub) : sub \in subs}
            /\ ~arg.hashedRids => PlacedSubs \subseteq subs

\* Without hashed runtime IDs the palettes are those of the stream whichever
\* way the index is read
C30_UnhashedUnchanged ==
    (HashedReturned /\ ~arg.hashedRids) =>
        PlacedSubs \subseteq DecodedSubs(arg.data, 0, arg.count, Range(arg.dim))

\* A hashed call returned a chunk whose layers hold the runtime IDs 1 and 2
C30_LateReached ==
    /\ HashedReturned /\ arg.late /\ arg.hashedRids
    /\ res.chunk.sub[1] = [storages |-> <<emptyStorage(1)>>]
    /\ res.chunk.sub[2] = [storages |-> <<emptyStorage(2)>>]


----------------------------------------------------------------------------
(* permutate_properties (part_003). props is the caller's map, which the    *)
(* function changes: every operator returns the result list so far and the  *)
(* map as it is left. orders gives, for every set of keys, the order in     *)
(* which a range over a map of these keys yields them; a key deleted before *)
(* the range reaches it is not yielded.                                     *)

\* A []int32 and a []any property value
Int32List(values) == [type |-> "[]int32", values |-> values]
AnyList(values) == [type |-> "[]any", values |-> values]

\* delete(props, propName)
deleteKey(props, propName) == [k \in DOMAIN props \ {propName} |-> props[k]]

\* res of the closure f: propName with p1, then the pairs of p2
mergedMap(propName, p1, p2) ==
    [k \in DOMAIN p2 \cup {propName} |-> IF k \in DOMAIN p2 THEN p2[k] ELSE p1]

RECURSIVE permutate_properties(_, _)
RECURSIVE rangeValues(_, _, _, _, _, _)
RECURSIVE rangeProps(_, _, _, _, _)

\* The closure f(propName, p1)
f(props, orders, propName, p1, result) ==
    IF Cardinality(DOMAIN props) = 1
    THEN [result |-> Append(result, [k \in {propName} |-> p1]), props |-> props]
    ELSE With(permutate_properties(deleteKey(props, propName), orders),
              LAMBDA r :
                [result |-> result \o [i \in 1..Len(r.result) |->
                                          mergedMap(propName, p1, r.result[i])],
                 props |-> r.props])

\* for _, p1 := range propVal { f(propName, p1) } from the j-th value on
rangeValues(props, orders, propName, propVal, j, result) ==
    IF j > Len(propVal.values) THEN [result |-> result, props |-> props]
    ELSE With(f(props, orders, propName, propVal.values[j], result),
              LAMBDA r : rangeValues(r.props, orders, propName, propVal, j + 1, r.result))

\* for propName, propVal := range props from the i-th key of the order on
rangeProps(props, orders, order, i, result) ==
    IF i > Len(order) THEN [result |-> result, props |-> props]
    ELSE IF order[i] \notin DOMAIN props
    THEN rangeProps(props, orders, order, i + 1, result)
    ELSE IF props[order[i]].type \notin {"[]int32", "[]any"}
    THEN rangeProps(props, orders, order, i + 1, result)
    ELSE With(rangeValues(props, orders, order[i], props[order[i]], 1, result),
              LAMBDA r : rangeProps(r.props, orders, order, i + 1, r.result))

permutate_properties(props, orders) ==
    IF Cardinality(DOMAIN props) = 0
    THEN [result |-> <<[k \in {} |-> 0]>>, props |-> props]
    ELSE rangeProps(props, orders, orders[DOMAIN props], 1, <<>>)

----------------------------------------------------------------------------
(* Calls of permutate_properties                                            *)

PermutateKeys == {"age", "color", "facing"}

\* The bytes of "red", "blue", "north", "east" and "south"
strRed == <<114, 101, 100>>
strBlue == <<98, 108, 117, 101>>
strNorth == <<110, 111, 114, 116, 104>>
strEast == <<101, 97, 115, 116>>
strSouth == <<115, 111, 117, 116, 104>>

\* The lists a key can have
PermutateLists(k) ==
    IF k = "age" THEN {Int32List(<<PInt32(0), PInt32(1)>>), Int32List(<<PInt32(7)>>)}
    ELSE IF k = "color"
    THEN {AnyList(<<PString(strRed), PString(strBlue)>>), AnyList(<<PString(strRed)>>)}
    ELSE {AnyList(<<PString(strNorth), PString(strEast), PString(strSouth)>>), AnyList(<<>>)}

\* The property tables
PermutateTables ==
    UNION {{t \in [ks -> UNION {PermutateLists(k) : k \in ks}] :
                \A k \in ks : t[k] \in PermutateLists(k)} :
           ks \in SUBSET PermutateKeys}

\* The orders of a set of keys
KeyOrders(ks) ==
    {o \in [1..Cardinality(ks) -> ks] : \A i, j \in DOMAIN o : o[i] = o[j] => i = j}

\* A range order for every set of keys of a table of at most three keys: any
\* order of all its keys and, for each pair of them, either order
TableOrders(t) ==
    LET pairs == {ks \in SUBSET (DOMAIN t) : Cardinality(ks) = 2} \ {DOMAIN t}
    IN  {[ks \in SUBSET (DOMAIN t) |->
            IF ks = DOMAIN t THEN top
            ELSE LET o == CHOOSE o \in KeyOrders(ks) : TRUE
                 IN  IF ks \in flipped THEN <<o[2], o[1]>> ELSE o] :
         top \in KeyOrders(DOMAIN t), flipped \in SUBSET pairs}

permutate_propertiesCalls ==
    UNION {{[fn |-> "permutate_properties", props |-> t, orders |-> o] :
                o \in TableOrders(t)} :
           t \in PermutateTables}

InitPermutate ==
    /\ ldb = EmptyStore
    /\ op = "call"
    /\ arg \in permutate_propertiesCalls
    /\ res = [err |-> "nil"]
    /\ pre = EmptyStore
    /\ failures = 0
    /\ written = NoWritten
    /\ blockRegistry = registry
    /\ db = OpenedDB

permutate_propertiesDone(r) ==
    /\ Returned(ldb, "permutate_properties", arg,
                [result |-> r.result, props |-> r.props], EmptyStore, FALSE)
    /\ UNCHANGED written

permutate_propertiesAct ==
    /\ op = "call"
    /\ arg.fn = "permutate_properties"
    /\ permutate_propertiesDone(permutate_properties(arg.props, arg.orders))

NextPermutate == permutate_propertiesAct

SpecPermutate == InitPermutate /\ [][NextPermutate]_vars

\* The combinations of a table: the maps over all its keys with a value of
\* the key's list for each
Combinations(t) ==
    {m \in [DOMAIN t -> UNION {{t[k].values[i] : i \in DOMAIN t[k].values} : k \in DOMAIN t}] :
        \A k \in DOMAIN t : \E i \in DOMAIN t[k].values : m[k] = t[k].values[i]}

\* C31: permutate_properties returns exactly the Cartesian product of the
\* value lists: every returned map has all the keys of the table, every
\* combination is returned and none twice, a table without keys gives one
\* empty map, and the table passed is as it was
C31_PermutationsAreProduct ==
    op = "permutate_properties" =>
        /\ {res.result[i] : i \in DOMAIN res.result} = Combinations(arg.props)
        /\ Len(res.result) = Cardinality(Combinations(arg.props))
        /\ \A i \in DOMAIN res.result : DOMAIN res.result[i] = DOMAIN arg.props
        /\ DOMAIN arg.props = {} => res.result = <<[k \in {} |-> 0]>>
        /\ res.props = arg.props

\* For a table of at most one property the result is the product and the
\* table is as it was
C31_ProductOfOneProperty ==
    (op = "permutate_properties" /\ Cardinality(DOMAIN arg.props) <= 1) =>
        /\ {res.result[i] : i \in DOMAIN res.result} = Combinations(arg.props)
        /\ Len(res.result) = Cardinality(Combinations(arg.props))
        /\ res.props = arg.props

\* For two properties and more with no empty list, the table is left with
\* one key and some returned map lacks a key of the table
C31_KeysDeleted ==
    (op = "permutate_properties" /\ Cardinality(DOMAIN arg.props) >= 2
        /\ \A k \in DOMAIN arg.props : arg.props[k].values # <<>>) =>
        /\ Cardinality(DOMAIN res.props) = 1
        /\ \E i \in DOMAIN res.result : DOMAIN res.result[i] # DOMAIN arg.props

\* age [0, 1] and color ["red", "blue"], age ranged over first
C31_TwoByTwo ==
    /\ op = "permutate_properties"
    /\ arg.props = [age |-> Int32List(<<PInt32(0), PInt32(1)>>),
                    color |-> AnyList(<<PString(strRed), PString(strBlue)>>)]
    /\ arg.orders[{"age", "color"}] = <<"age", "color">>
    /\ res.result = <<[age |-> PInt32(0), color |-> PString(strRed)],
                      [age |-> PInt32(0), color |-> PString(strBlue)],
                      [age |-> PInt32(1)],
                      [color |-> PString(strRed)], [color |-> PString(strBlue)]>>
    /\ res.props = [color |-> AnyList(<<PString(strRed), PString(strBlue)>>)]


----------------------------------------------------------------------------
(* Entities that move between chunks: SaveEntities on two chunks of an      *)
(* empty store, no store operation failing, and LoadEntities                *)

\* The entity lists saved: entities with a UniqueID of their own
MovedLists == {<<>>, <<EntityA>>, <<EntityB>>, <<EntityB, EntityA>>}

InitMoved ==
    /\ ldb = EmptyStore
    /\ op = "init"
    /\ arg = [position |-> <<0, 0>>]
    /\ res = [err |-> "nil"]
    /\ pre = EmptyStore
    /\ failures = 0
    /\ written = NoWritten
    /\ blockRegistry = registry
    /\ db = OpenedDB

SaveEntitiesMovedAct ==
    \E ch \in EntityChunks, entities \in MovedLists, rnd \in RandUIDs :
        SaveEntitiesDone(ch[1], entities, ch[2], 0,
                         SaveEntities(ldb, ch[1], entities, ch[2], 0, rnd))

NextMoved == SaveEntitiesMovedAct \/ LoadEntitiesAct

SpecMoved == InitMoved /\ [][NextMoved]_vars

\* Every UID that the digp value of a chunk lists has an actorprefix record
ListedHaveRecords ==
    \A ch \in EntityChunks :
        \A i \in DOMAIN UIDsListed(ldb, ch[1], ch[2]) :
            actorIndex(UIDsListed(ldb, ch[1], ch[2])[i]) \in DOMAIN ldb

\* C32: after SaveEntities calls that all returned nil, on any chunks, every
\* UID listed in the digp value of any chunk has an actorprefix record, and a
\* LoadEntities whose store reads succeed returns a nil error and one entity
\* for every UID the chunk lists
C32_ListedEntitiesLoad ==
    /\ op = "SaveEntities" => res.err = "nil"
    /\ ListedHaveRecords
    /\ (op = "LoadEntities" /\ ~res.faulted) =>
           /\ res.err = "nil"
           /\ Len(res.a) = Len(UIDsListed(ldb, arg.position, arg.dim))

\* Right after a SaveEntities, every UID that the chunk of the call lists has
\* a record
C32_SavedChunkHasRecords ==
    op = "SaveEntities" =>
        \A i \in DOMAIN UIDsListed(ldb, arg.position, arg.dim) :
            actorIndex(UIDsListed(ldb, arg.position, arg.dim)[i]) \in DOMAIN ldb

\* The entity of UniqueID 1 is listed by the nether chunk, its record is
\* gone, and LoadEntities of that chunk failed
C32_MovedEntityLost ==
    /\ op = "LoadEntities" /\ ~res.faulted
    /\ arg.position = <<0, 1>> /\ arg.dim = "Nether"
    /\ UIDsListed(ldb, <<0, 1>>, "Nether") = <<1>>
    /\ actorIndex(1) \notin DOMAIN ldb
    /\ res.err # "nil"


----------------------------------------------------------------------------
(* The keys of the records of the provider. A record is named by its kind,  *)
(* chunk position and dimension, the 0-based sub-chunk slot i for a         *)
(* sub-chunk, and the UID for an actorprefix record.                        *)

RecordKinds ==
    {"version", "legacy version", "3D data", "finalisation", "sub-chunk",
     "block entities", "legacy entities", "digp", "actorprefix"}

\* The key the provider builds for a record
recordKey(r) ==
    CASE r.kind = "version" -> index(r.position, r.dim) \o <<keyVersion>>
      [] r.kind = "legacy version" -> index(r.position, r.dim) \o <<keyVersionOld>>
      [] r.kind = "3D data" -> index(r.position, r.dim) \o <<key3DData>>
      [] r.kind = "finalisation" -> index(r.position, r.dim) \o <<keyFinalisation>>
      [] r.kind = "sub-chunk" -> subChunkKey(index(r.position, r.dim), r.i, Range(r.dim))
      [] r.kind = "block entities" -> index(r.position, r.dim) \o <<keyBlockEntities>>
      [] r.kind = "legacy entities" -> index(r.position, r.dim) \o <<keyEntities>>
      [] r.kind = "digp" -> strDigp \o index(r.position, r.dim)
      [] r.kind = "actorprefix" -> actorIndex(r.uid)

\* Chunk positions: the origin, one whose x has the bytes of "digp" and
\* whose z is all ones, and one between
RecordPositions == {<<0, 0>>, <<1885825380, -1>>, <<0, -1>>}
RecordSlots == {0, 4, 7}
RecordUIDs == {0, 1, -2}

Records ==
    {[kind |-> k, position |-> p, dim |-> d, i |-> 0, uid |-> 0] :
        k \in RecordKinds \ {"sub-chunk", "actorprefix"}, p \in RecordPositions,
        d \in KeyDims}
    \cup {[kind |-> "sub-chunk", position |-> p, dim |-> d, i |-> i, uid |-> 0] :
        p \in RecordPositions, d \in Dimensions, i \in RecordSlots}
    \cup {[kind |-> "actorprefix", position |-> <<0, 0>>, dim |-> "Overworld", i |-> 0,
           uid |-> u] : u \in RecordUIDs}

InitRecordKeys ==
    /\ ldb = EmptyStore
    /\ op = "call"
    /\ arg \in {[fn |-> "recordKey", a |-> a, b |-> b] : a \in Records, b \in Records}
    /\ res = [err |-> "nil"]
    /\ pre = EmptyStore
    /\ failures = 0
    /\ written = NoWritten
    /\ blockRegistry = registry
    /\ db = OpenedDB

recordKeyAct ==
    /\ op = "call"
    /\ arg.fn = "recordKey"
    /\ Returned(ldb, "recordKey", arg, [a |-> recordKey(arg.a), b |-> recordKey(arg.b)],
                EmptyStore, FALSE)
    /\ UNCHANGED written

NextRecordKeys == recordKeyAct

SpecRecordKeys == InitRecordKeys /\ [][NextRecordKeys]_vars

\* The Y of a sub-chunk record: its slot plus the lowest sub-chunk of the range
SubChunkY(r) == r.i + Shr4(Range(r.dim)[1])

\* Two names of one record: the same kind; for an actorprefix record the same
\* UID, else the same chunk x and z and the same dimension ID; for a
\* sub-chunk the same Y
SameRecord(a, b) ==
    /\ a.kind = b.kind
    /\ a.kind = "actorprefix" => a.uid = b.uid
    /\ a.kind # "actorprefix" =>
           /\ a.position = b.position
           /\ DimensionID(a.dim)[1] = DimensionID(b.dim)[1]
    /\ a.kind = "sub-chunk" => SubChunkY(a) = SubChunkY(b)

\* C33: two keys built by the provider are equal only if they are keys of the
\* same kind of record, the same chunk x and z, the same dimension ID and the
\* same sub-chunk Y or UID; a key of a chunk of dimension ID 0 never equals a
\* key of a chunk of another dimension ID
C33_KeysInjective ==
    op = "recordKey" =>
        /\ res.a = res.b => SameRecord(arg.a, arg.b)
        /\ (arg.a.kind # "actorprefix" /\ arg.b.kind # "actorprefix"
              /\ DimensionID(arg.a.dim)[1] = 0 /\ DimensionID(arg.b.dim)[1] # 0)
             => res.a # res.b

\* Equal keys of two names: slot 4 of the overworld and slot 0 of the legacy
\* overworld, both Y 0 of dimension ID 0
C33_Witness ==
    /\ op = "recordKey"
    /\ arg.a.kind = "sub-chunk" /\ arg.a.dim = "Overworld" /\ arg.a.i = 4
    /\ arg.b.kind = "sub-chunk" /\ arg.b.dim = "Overworld_legacy" /\ arg.b.i = 0
    /\ arg.a.position = <<1885825380, -1>>
    /\ res.a = res.b
    /\ res.a = <<100, 105, 103, 112, 255, 255, 255, 255, keySubChunkData, 0>>


\* The fields of the spawn position in the server data
SpawnFields == {"SpawnX", "SpawnY", "SpawnZ"}

\* C34: a SavePlayerSpawnPosition that returned nil for a player with a valid
\* record wrote the server data under the server ID that the reference record
\* named before the call, left the reference record as it was, and the
\* server data after the call has the fields it had before, each field other
\* than SpawnX, SpawnY and SpawnZ with the value it had, and the three spawn
\* fields
C34_OtherFieldsKept ==
    (op = "SavePlayerSpawnPosition" /\ res.err = "nil" /\ ValidRecord(pre, arg.id)) =>
        /\ res.key = ServerDataKey
        /\ Kept(playerKey(arg.id))
        /\ ServerDataKey \in DOMAIN ldb
        /\ DecodesCompound(ldb[ServerDataKey])
        /\ LET before == Head(Items(pre[ServerDataKey]))
               after == Head(Items(ldb[ServerDataKey]))
           IN  /\ DOMAIN after = DOMAIN before \cup SpawnFields
               /\ \A k \in DOMAIN before \ SpawnFields : after[k] = before[k]
               /\ after.SpawnX = int32(arg.pos[1])
               /\ after.SpawnY = int32(arg.pos[2])
               /\ after.SpawnZ = int32(arg.pos[3])

\* The spawn position of player 2, whose server data lies under a key of
\* another name and held XP 30 and another spawn position, was replaced
C34_Witness ==
    /\ op = "SavePlayerSpawnPosition" /\ res.err = "nil" /\ arg.id = uuid(50)
    /\ ValidRecord(pre, arg.id)
    /\ res.key = playerServerKey(uuid(57))
    /\ Head(Items(pre[res.key])).XP = 30
    /\ "SpawnX" \in DOMAIN Head(Items(pre[res.key]))
    /\ Head(Items(pre[res.key])).SpawnX # Head(Items(ldb[res.key])).SpawnX
    /\ Head(Items(ldb[res.key])).XP = 30


\* The slot index decodeSubChunk leaves: the caller's for versions 1 and 8,
\* the Y byte as a signed byte minus the lowest sub-chunk of the range for
\* version 9
C35_SlotIndex ==
    (op = "decodeSubChunk" /\ res.err = "nil") =>
        /\ arg.buf[1] \in {1, 8} => res.index = arg.index
        /\ arg.buf[1] = 9 =>
               res.index = uint8(int8(arg.buf[3]) - Shr4(Range(arg.dim)[1]))

\* C35: decodeSubChunk leaves the slot index as the version says, and
\* NetworkDecode and DiskDecode never use a slot outside the sub-chunk array
\* of the chunk: they return a chunk or an error
C35_SlotInRange ==
    /\ C35_SlotIndex
    /\ op \in {"NetworkDecode", "DiskDecode"} => res.err # "panic: index out of range"

\* NetworkDecode of a nether chunk with nine sub-chunks crashed on the ninth
\* slot
C35_CountBeyondRange ==
    /\ op = "NetworkDecode" /\ arg.count = 9 /\ ~arg.hashedRids
    /\ res.err = "panic: index out of range"

\* A chunk whose slots are all in the range decodes
C35_LastSlotDecodes ==
    (op = "NetworkDecode" /\ arg.count = 8 /\ \E w \in NetworkSlotWholes : arg.whole = w.data \o OldBiomeBytes)
        => res.err = "nil"

=========================================================================
